---- MODULE Spec2Model ----
(***************************************************************************)
(* Model of the scheduling engine of the weather bot:                      *)
(*   parsing/scheduler.py  Scheduler (registry, task loop, delay maths)    *)
(*   parsing/site_parser.py SiteParser.fetch_and_parse (await points)      *)
(*   telegram_notifier.py  send_telegram_notification                      *)
(*   main.py               run_bot_async (main loop, reload, finally)      *)
(*   parsing/meteo.py      ExponentialBackoff, WeatherFetcher              *)
(*   parsing/scheduler.py  Scheduler._format_weather_message               *)
(*   config.py             ConfigLoader and the reload check of main.py    *)
(*                                                                         *)
(* Instants are seconds of Yakutsk local time counted from a Monday 00:00  *)
(* (Asia/Yakutsk is a fixed +09:00 offset, so local arithmetic is linear). *)
(* A time-of-day string is a sequence of one-character strings.            *)
(***************************************************************************)
EXTENDS Integers, Sequences, FiniteSets, TLC

VARIABLES
    now,            \* datetime.now(YAKUTSK_TZ) seen by the calculator calls
    arg_time_str,   \* argument of the _get_delay_until call under study
    ret_delay,      \* its result
    next_check,     \* result of the _get_next_check_time call under study
    task,           \* every asyncio task created by add_job: id -> record
    tasks,          \* Scheduler.tasks: the registry, a list of task ids
    parsers,        \* Scheduler.parsers: a list of site urls
    config,         \* Scheduler.config / the running config of run_bot_async
    today,          \* now_yakutsk.weekday() read by the latest add_job, 6 = Sunday
    reloads,        \* number of update_config calls completed (history)
    mainpc,         \* await point of run_bot_async
    failed_jobs,    \* urls of the sites whose add_job call raised
    fetch,          \* the fetch_with_retry / get_weather call under study
    backoff,        \* an ExponentialBackoff object and its get_delay calls
    fmt,            \* the _format_weather_message calls under study
    loader,         \* the ConfigLoader, config.yaml and new_config of the main loop
    iter,           \* clock bookkeeping and requests of the task loop under study
    scan            \* the _get_next_check_time call under study, task by task

vars == <<now, arg_time_str, ret_delay, next_check, task, tasks, parsers,
          config, today, reloads, mainpc, failed_jobs, fetch, backoff, fmt,
          loader, iter, scan>>

(***************************************************************************)
(* Program constants.                                                      *)
(***************************************************************************)
SecondsPerDay == 86400
SecondsPerHour == 3600
SecondsPerMinute == 60
Sunday == 6
None == -1

(***************************************************************************)
(* Bounds of the model.                                                    *)
(***************************************************************************)
MaxTasks == 2       \* asyncio tasks created over a run of the main specification
MaxRegistry == 2    \* registry length in the calculator specification

(***************************************************************************)
(* datetime.strptime(time_str, "%H:%M"): one or two digits, a colon, one   *)
(* or two digits, nothing else; hour 0..23, minute 0..59.  Anything else   *)
(* raises ValueError.                                                      *)
(***************************************************************************)
Digits == <<"0", "1", "2", "3", "4", "5", "6", "7", "8", "9">>

IsDigit(c) == \E i \in 1..10 : Digits[i] = c

DigitVal(c) == (CHOOSE i \in 1..10 : Digits[i] = c) - 1

RECURSIVE NumVal(_)
NumVal(s) ==
    IF s = <<>> THEN 0
    ELSE 10 * NumVal(SubSeq(s, 1, Len(s) - 1)) + DigitVal(s[Len(s)])

AllDigits(s) == \A i \in 1..Len(s) : IsDigit(s[i])

ColonAt(s) ==
    IF \E p \in 1..Len(s) : s[p] = ":"
    THEN CHOOSE p \in 1..Len(s) : s[p] = ":" /\ \A q \in 1..(p - 1) : s[q] # ":"
    ELSE 0

HourPart(s) == SubSeq(s, 1, ColonAt(s) - 1)

MinutePart(s) == SubSeq(s, ColonAt(s) + 1, Len(s))

ValidTimeStr(s) ==
    /\ ColonAt(s) > 0
    /\ Len(HourPart(s)) \in {1, 2}
    /\ Len(MinutePart(s)) \in {1, 2}
    /\ AllDigits(HourPart(s))
    /\ AllDigits(MinutePart(s))
    /\ NumVal(HourPart(s)) <= 23
    /\ NumVal(MinutePart(s)) <= 59

\* target_time_naive as seconds after midnight
TimeOfDay(s) ==
    NumVal(HourPart(s)) * SecondsPerHour + NumVal(MinutePart(s)) * SecondsPerMinute

\* now_yakutsk.date(), as the instant of its midnight
DateOf(t) == (t \div SecondsPerDay) * SecondsPerDay

\* YAKUTSK_TZ.localize(datetime.combine(now_yakutsk.date(), target_time_naive))
Candidate(s, t) == DateOf(t) + TimeOfDay(s)

Max(a, b) == IF a >= b THEN a ELSE b

\* faulty variants of Target: roll-over at equality, reversed test, half a day
TargetBumpIfNotAfter(s, t) ==
    IF Candidate(s, t) <= t THEN Candidate(s, t) + SecondsPerDay ELSE Candidate(s, t)

TargetReversed(s, t) ==
    IF Candidate(s, t) > t THEN Candidate(s, t) + SecondsPerDay ELSE Candidate(s, t)

TargetHalfDay(s, t) ==
    IF Candidate(s, t) < t THEN Candidate(s, t) + SecondsPerDay \div 2 ELSE Candidate(s, t)

\* if target_time_yakutsk < now_yakutsk: target_time_yakutsk += timedelta(days=1)
Target(s, t) ==
    IF Candidate(s, t) < t THEN Candidate(s, t) + SecondsPerDay ELSE Candidate(s, t)

\* Scheduler._get_delay_until: [raised, value]; raised stands for ValueError
GetDelayUntil(s, t) ==
    IF ~ValidTimeStr(s)
    THEN [raised |-> TRUE, value |-> 0]
    ELSE [raised |-> FALSE, value |-> Max(0, Target(s, t) - t)]

(***************************************************************************)
(* A task created by add_job (asyncio.create_task plus the attributes      *)
(* time_str and parser set on it) and the position of its coroutine.       *)
(*   pc       await point of _run_parser_task (see TaskStep below)         *)
(*   attempt  loop variable of fetch_and_parse                             *)
(*   cancel   Task.cancel() was called and CancelledError is pending       *)
(*   outcome  how the last firing ended, "none" before and during a firing *)
(*   weather_data  the list handed to _send_weather_message while the      *)
(*            notification is in progress, "none" otherwise                *)
(*   sends    calls of send_telegram_notification in the current or last   *)
(*            firing                                                       *)
(*   logged   calls of log_next_check_time made by the task in the current *)
(*            or last firing                                               *)
(*   waited   seconds of asyncio.sleep(3) completed since the last firing  *)
(*   gen      number of update_config calls completed before its creation  *)
(*   sched    the schedule list it was taken from                          *)
(***************************************************************************)
NewTask(s, url, g, list) ==
    [time_str |-> s, parser |-> url, pc |-> "created", attempt |-> 0,
     cancel |-> FALSE, outcome |-> "none", weather_data |-> "none",
     sends |-> 0, logged |-> 0, waited |-> 0, gen |-> g, sched |-> list]

\* asyncio.Task.done()
Done(id) == task[id].pc \in {"cancelled", "failed"}

(***************************************************************************)
(* Scheduler._get_next_check_time: scan of the registry in list order.     *)
(* acc is next_check so far (None at the start); a ValueError raised by    *)
(* _get_delay_until leaves the loop and the except clause returns None.    *)
(***************************************************************************)
ScanTakes(id) == ~Done(id)

RECURSIVE Scan(_, _)
Scan(i, acc) ==
    IF i > Len(tasks) THEN [raised |-> FALSE, value |-> acc]
    ELSE IF ~ScanTakes(tasks[i]) THEN Scan(i + 1, acc)
    ELSE LET d == GetDelayUntil(task[tasks[i]].time_str, now)
             task_time_yakutsk == now + d.value
         IN  IF d.raised THEN [raised |-> TRUE, value |-> None]
             ELSE IF acc = None \/ task_time_yakutsk < acc
                  THEN Scan(i + 1, task_time_yakutsk)
                  ELSE Scan(i + 1, acc)

GetNextCheckTime ==
    LET r == Scan(1, None) IN IF r.raised THEN None ELSE r.value

(***************************************************************************)
(* Calculator specification: the two schedule computations applied to      *)
(* inputs drawn from bounded sets.                                         *)
(***************************************************************************)
Str(a, b, c, d, e) == <<a, b, c, d, e>>

T0600 == Str("0", "6", ":", "0", "0")
T0000 == Str("0", "0", ":", "0", "0")
T2359 == Str("2", "3", ":", "5", "9")
T0715 == Str("0", "7", ":", "1", "5")
T75 == <<"7", ":", "5">>
T2400 == Str("2", "4", ":", "0", "0")
T0660 == Str("0", "6", ":", "6", "0")
TNoColon == <<"0", "6", "0", "0">>
TWord == <<"n", "o", "o", "n">>

ValidTimes == {T0600, T0000, T2359, T0715, T75}
BadTimes == {T2400, T0660, TNoColon, TWord}
TimeStrs == ValidTimes \cup BadTimes

At(day, h, m, sec) ==
    day * SecondsPerDay + h * SecondsPerHour + m * SecondsPerMinute + sec

NowSet ==
    { At(0, 0, 0, 0), At(0, 5, 0, 0), At(0, 5, 59, 59), At(0, 6, 0, 0),
      At(0, 6, 0, 1), At(0, 6, 30, 0), At(0, 7, 5, 0), At(0, 23, 59, 0),
      At(0, 23, 59, 59), At(5, 12, 0, 0), At(6, 6, 0, 0), At(6, 23, 59, 30) }

Pending == [state |-> "pending", value |-> 0]

\* no call of fetch_with_retry has been made
NoFetch ==
    [pc |-> "idle", attempt |-> 0, timeouts |-> <<>>, outcomes |-> <<>>,
     sleeps |-> <<>>, delay_args |-> <<>>, elapsed |-> 0, result |-> "none",
     got |-> "none", calls |-> 0]

\* no ExponentialBackoff object and no _format_weather_message call under study
NoBackoff ==
    [base_delay |-> 0, max_delay |-> 0, max_retries |-> 0, pc |-> "idle",
     attempt |-> 0, draw |-> 0, delay |-> 0, jitter |-> 0, final_delay |-> 0,
     prev_attempt |-> None, prev_delay |-> 0]

NoFormat == [pc |-> "idle"]

NoLoader == [pc |-> "idle"]

NoIter ==
    [target |-> None, fired |-> None, wake_at |-> 0, late |-> FALSE, firings |-> 0,
     probes |-> 0, probe |-> "none", pages |-> 0, page_fails |-> 0,
     page_ok |-> FALSE, weather |-> 0]

NoScan == [pc |-> "idle", i |-> 0, next_check |-> None, snapshot |-> <<>>]

\* Registries the program can hold: a task whose time-of-day is malformed has
\* either not run yet or has ended with the ValueError of its first step.
CalcTimes == {T0600, T2359, T0000, T2400}

CalcTaskRecords ==
    { [NewTask(s, "site1", 0, "weekdays") EXCEPT !.pc = p] :
        s \in CalcTimes, p \in {"created", "sleeping", "failed", "cancelled"} }

CalcTaskOk(r) ==
    /\ ~ValidTimeStr(r.time_str) => r.pc \in {"created", "failed"}
    /\ ValidTimeStr(r.time_str) => r.pc # "failed"

InitCalc ==
    /\ now \in NowSet
    /\ arg_time_str \in TimeStrs
    /\ ret_delay = Pending
    /\ next_check = Pending
    /\ \E n \in 0..MaxRegistry :
         /\ tasks = [i \in 1..n |-> i]
         /\ task \in [1..n -> {r \in CalcTaskRecords : CalcTaskOk(r)}]
    /\ parsers = <<>>
    /\ config = <<>>
    /\ today = (now \div SecondsPerDay) % 7
    /\ reloads = 0
    /\ mainpc = "calc"
    /\ failed_jobs = {}
    /\ fetch = NoFetch
    /\ backoff = NoBackoff
    /\ fmt = NoFormat
    /\ loader = NoLoader
    /\ iter = NoIter
    /\ scan = NoScan

CallGetDelayUntil ==
    /\ ret_delay.state = "pending"
    /\ LET d == GetDelayUntil(arg_time_str, now)
       IN  ret_delay' = [state |-> IF d.raised THEN "raised" ELSE "returned",
                         value |-> d.value]
    /\ UNCHANGED <<backoff, fmt, loader, iter, scan, failed_jobs, fetch, now, arg_time_str, next_check, task, tasks, parsers,
                   config, today, reloads, mainpc>>

CallGetNextCheckTime ==
    /\ next_check.state = "pending"
    /\ next_check' = [state |-> "returned", value |-> GetNextCheckTime]
    /\ UNCHANGED <<backoff, fmt, loader, iter, scan, failed_jobs, fetch, now, arg_time_str, ret_delay, task, tasks, parsers,
                   config, today, reloads, mainpc>>

NextCalc == CallGetDelayUntil \/ CallGetNextCheckTime

SpecCalc == InitCalc /\ [][NextCalc]_vars

(***************************************************************************)
(* Fetcher specification: WeatherFetcher.fetch_with_retry and get_weather. *)
(* Timeouts are in seconds, backoff delays in tenths of a second.  The     *)
(* fetch record holds the loop variable attempt, the timeouts, outcomes    *)
(* and backoff delays of the call so far, the time slept, the result of    *)
(* fetch_with_retry (record, None or raised), what get_weather returned    *)
(* and the number of calls started.                                        *)
(***************************************************************************)
MaxCalls == 2

\* ExponentialBackoff(base_delay=2.0, max_delay=30.0, max_retries=4)
BaseDelay == 20
MaxDelay == 300
MaxRetries == 4
\* max(0.1, delay + jitter)
MinDelay == 1
\* random.uniform(-0.2, 0.2), in percent
JitterPercent == 20
\* timeout = 10 + (attempt * 5), in seconds
BaseTimeout == 10
TimeoutStep == 5

RECURSIVE Pow2(_)
Pow2(n) == IF n <= 0 THEN 1 ELSE 2 * Pow2(n - 1)

Min(a, b) == IF a <= b THEN a ELSE b

\* the ends and the middle of random.uniform(-0.2, 0.2)
Jitters == {-JitterPercent, 0, JitterPercent}

\* faulty variant of GetDelay: the attempts are numbered from 1
GetDelayFromOne(attempt, jitter) ==
    IF attempt >= MaxRetries THEN MaxDelay
    ELSE LET delay == Min(BaseDelay * Pow2(attempt + 1), MaxDelay)
         IN  Max(MinDelay, delay + (jitter * delay) \div 100)

\* ExponentialBackoff.get_delay
GetDelay(attempt, jitter) ==
    IF attempt >= MaxRetries THEN MaxDelay
    ELSE LET exponential_delay == BaseDelay * Pow2(attempt)
             delay == Min(exponential_delay, MaxDelay)
         IN  Max(MinDelay, delay + (jitter * delay) \div 100)

\* what one attempt can meet: requests.get raises a RequestException
\* (connection_error, timeout), the status is not 200 (http_error), something
\* else is raised before the response is there (unexpected), or the status is
\* 200 and parse_weather_response returns the record, returns None
\* (not_found) or raises (parse_raises)
Transport == {"connection_error", "timeout", "http_error"}
AttemptOutcomes == Transport \cup {"unexpected", "record", "not_found", "parse_raises"}

\* faulty variant of Timeout: the timeout does not grow with the attempt
TimeoutFlat(attempt) == BaseTimeout

\* timeout = 10 + (attempt * 5)
Timeout(attempt) == BaseTimeout + attempt * TimeoutStep

\* faulty variant of LastAttempt: the last attempt is treated like the others
LastAttemptNever(attempt) == FALSE

\* if attempt == self.backoff.max_retries - 1: raise
LastAttempt(attempt) == attempt = MaxRetries - 1

\* one iteration of the for loop: the request with its timeout, then the
\* return of the parse result or one of the two except clauses
Attempt(f, o, jitter) ==
    LET g == [f EXCEPT !.timeouts = Append(f.timeouts, Timeout(f.attempt)),
                       !.outcomes = Append(f.outcomes, o)]
    IN  CASE o = "record" -> [g EXCEPT !.pc = "returned", !.result = "record"]
          [] o = "not_found" -> [g EXCEPT !.pc = "returned", !.result = "None"]
          [] OTHER ->
               IF LastAttempt(f.attempt)
               THEN [g EXCEPT !.pc = "raised", !.result = "raised"]
               ELSE [g EXCEPT !.pc = "sleep",
                              !.delay_args = Append(f.delay_args, f.attempt),
                              !.sleeps = Append(f.sleeps, GetDelay(f.attempt, jitter))]

\* time.sleep(delay) returns and the for loop takes the next attempt;
\* `return None` after the loop
SleepReturns(f) ==
    LET g == [f EXCEPT !.elapsed = f.elapsed + f.sleeps[Len(f.sleeps)],
                       !.attempt = f.attempt + 1]
    IN  IF f.attempt + 1 < MaxRetries THEN [g EXCEPT !.pc = "request"]
        ELSE [g EXCEPT !.pc = "returned", !.result = "None"]

\* get_weather: try: return fetch_with_retry() / except Exception: return None
GetWeather(f) ==
    [f EXCEPT !.pc = "done", !.got = IF f.result = "record" THEN "record" ELSE "None"]

InitFetch ==
    /\ now = 0
    /\ arg_time_str = T0600
    /\ ret_delay = Pending
    /\ next_check = Pending
    /\ task = <<>>
    /\ tasks = <<>>
    /\ parsers = <<>>
    /\ config = <<>>
    /\ today = 0
    /\ reloads = 0
    /\ mainpc = "fetch"
    /\ failed_jobs = {}
    /\ fetch = NoFetch
    /\ backoff = NoBackoff
    /\ fmt = NoFormat
    /\ loader = NoLoader
    /\ iter = NoIter
    /\ scan = NoScan

fetchFrame ==
    <<now, arg_time_str, ret_delay, next_check, task, tasks, parsers, config,
      today, reloads, mainpc, failed_jobs, backoff, fmt, loader, iter, scan>>

\* get_weather() calls fetch_with_retry(): for attempt in range(max_retries)
CallFetch ==
    /\ fetch.pc \in {"idle", "done"}
    /\ fetch.calls < MaxCalls
    /\ fetch' = [NoFetch EXCEPT !.pc = "request", !.calls = fetch.calls + 1]
    /\ UNCHANGED fetchFrame

FetchAttempt ==
    /\ fetch.pc = "request"
    /\ \E o \in AttemptOutcomes, jitter \in Jitters : fetch' = Attempt(fetch, o, jitter)
    /\ UNCHANGED fetchFrame

FetchSleepReturns ==
    /\ fetch.pc = "sleep"
    /\ fetch' = SleepReturns(fetch)
    /\ UNCHANGED fetchFrame

GetWeatherReturns ==
    /\ fetch.pc \in {"returned", "raised"}
    /\ fetch' = GetWeather(fetch)
    /\ UNCHANGED fetchFrame

NextFetch == CallFetch \/ FetchAttempt \/ FetchSleepReturns \/ GetWeatherReturns

SpecFetch == InitFetch /\ [][NextFetch]_vars

(***************************************************************************)
(* Backoff specification: an ExponentialBackoff object built with any      *)
(* parameters and its get_delay called with any attempt number.  Delays    *)
(* are tenths of a second; the parameters are multiples of half a second,  *)
(* so that 20% of a delay is a whole number of tenths.                     *)
(***************************************************************************)
MaxAttempt == 6     \* largest attempt number passed to get_delay

\* ExponentialBackoff(base_delay, max_delay, max_retries): the defaults
\* (1.0, 60.0, 5), the fetcher's (2.0, 30.0, 4) and others
BaseDelays == {0, 5, 10, 20, 130}
MaxDelays == {100, 300, 600}
RetryCounts == {1, 4, 5}

\* faulty variant of RawDelay: the delay grows by base_delay at each attempt
RawDelayLinear(b, attempt) == Min(b.base_delay * (attempt + 1), b.max_delay)

\* exponential_delay = self.base_delay * (2 ** attempt)
\* delay = min(exponential_delay, self.max_delay)
RawDelay(b, attempt) == Min(b.base_delay * Pow2(attempt), b.max_delay)

\* faulty variant of BackoffGetDelay: no early return for the late attempts
BackoffGetDelayAlwaysJitter(b, attempt, draw) ==
    LET delay == RawDelay(b, attempt)
        jitter == (draw * delay) \div 100
    IN  [delay |-> delay, jitter |-> jitter, final_delay |-> Max(MinDelay, delay + jitter)]

\* ExponentialBackoff.get_delay(attempt) of the object b, where draw is the
\* value of random.uniform(-0.2, 0.2) in percent; the early return neither
\* computes a delay nor draws
BackoffGetDelay(b, attempt, draw) ==
    IF attempt >= b.max_retries
    THEN [delay |-> None, jitter |-> 0, final_delay |-> b.max_delay]
    ELSE LET delay == RawDelay(b, attempt)
             jitter == (draw * delay) \div 100
             final_delay == Max(MinDelay, delay + jitter)
         IN  [delay |-> delay, jitter |-> jitter, final_delay |-> final_delay]

InitBackoff ==
    /\ now = 0
    /\ arg_time_str = T0600
    /\ ret_delay = Pending
    /\ next_check = Pending
    /\ task = <<>>
    /\ tasks = <<>>
    /\ parsers = <<>>
    /\ config = <<>>
    /\ today = 0
    /\ reloads = 0
    /\ mainpc = "backoff"
    /\ failed_jobs = {}
    /\ fetch = NoFetch
    /\ fmt = NoFormat
    /\ loader = NoLoader
    /\ iter = NoIter
    /\ scan = NoScan
    /\ \E bd \in BaseDelays, md \in MaxDelays, mr \in RetryCounts :
         backoff = [NoBackoff EXCEPT !.base_delay = bd, !.max_delay = md,
                                     !.max_retries = mr]

backoffFrame ==
    <<now, arg_time_str, ret_delay, next_check, task, tasks, parsers, config,
      today, reloads, mainpc, failed_jobs, fetch, fmt, loader, iter, scan>>

\* one call of get_delay; the previous call is remembered
CallGetDelay ==
    /\ mainpc = "backoff"
    /\ \E attempt \in 0..MaxAttempt, draw \in Jitters :
         LET d == BackoffGetDelay(backoff, attempt, draw)
         IN  backoff' = [backoff EXCEPT
                           !.pc = "returned", !.attempt = attempt, !.draw = draw,
                           !.delay = d.delay, !.jitter = d.jitter,
                           !.final_delay = d.final_delay,
                           !.prev_attempt = IF backoff.pc = "returned"
                                            THEN backoff.attempt ELSE None,
                           !.prev_delay = backoff.delay]
    /\ UNCHANGED backoffFrame

NextBackoff == CallGetDelay

SpecBackoff == InitBackoff /\ [][NextBackoff]_vars

(***************************************************************************)
(* Formatter specification: Scheduler._format_weather_message applied to   *)
(* the records parse_weather_response can return, at any clock reading.    *)
(* A text is a sequence of tokens: single characters for the parts the     *)
(* code parses, whole words for the rest.  The Cyrillic and the degree     *)
(* sign are written in ASCII: "n/d" is the marker the code writes for a    *)
(* missing value, "degC" the suffix of a temperature, "ball", "balla" and  *)
(* "ballov" the three forms of the cloudiness unit.                        *)
(***************************************************************************)
MaxFormatCalls == 2     \* calls of the formatter on the same inputs

NA == <<"N/A">>
ND == <<"n/d">>

\* def format_value(value): if value == 'N/A': return 'n/d'; return value
format_value(value) == IF value = NA THEN ND ELSE value

\* str.replace(old, ""), old being one token
Replace(s, old) == SelectSeq(s, LAMBDA c : c # old)

\* str.strip()
RECURSIVE Strip(_)
Strip(s) ==
    IF s = <<>> THEN s
    ELSE IF Head(s) = " " THEN Strip(Tail(s))
    ELSE IF s[Len(s)] = " " THEN Strip(SubSeq(s, 1, Len(s) - 1))
    ELSE s

\* str.split()[0]: the characters before the first blank of the stripped
\* text; IndexError when there is none
FirstWord(s) ==
    LET t == Strip(s)
        cut == IF \E p \in 1..Len(t) : t[p] = " "
               THEN (CHOOSE p \in 1..Len(t) : t[p] = " " /\ \A q \in 1..(p - 1) : t[q] # " ") - 1
               ELSE Len(t)
    IN  [raised |-> t = <<>>, value |-> SubSeq(t, 1, cut)]

\* int(text) of an unsigned decimal text; ValueError otherwise
ParseInt(s) ==
    IF s # <<>> /\ AllDigits(s) THEN [raised |-> FALSE, value |-> NumVal(s)]
    ELSE [raised |-> TRUE, value |-> 0]

\* str(n) for n >= 0
RECURSIVE IntText(_)
IntText(n) ==
    IF n < 10 THEN <<Digits[n + 1]>>
    ELSE IntText(n \div 10) \o <<Digits[(n % 10) + 1]>>

DotAt(s) ==
    IF \E p \in 1..Len(s) : s[p] = "."
    THEN CHOOSE p \in 1..Len(s) : s[p] = "." /\ \A q \in 1..(p - 1) : s[q] # "."
    ELSE 0

\* float(text) for a text made of an optional sign, digits and at most one
\* point, cut to tenths (which keeps every comparison with a threshold given
\* in tenths below zero); ValueError for any other text
ParseFloat(s) ==
    LET signed == s # <<>> /\ Head(s) \in {"-", "+"}
        body == IF signed THEN Tail(s) ELSE s
        whole == IF DotAt(body) = 0 THEN body ELSE SubSeq(body, 1, DotAt(body) - 1)
        frac == IF DotAt(body) = 0 THEN <<>> ELSE SubSeq(body, DotAt(body) + 1, Len(body))
        ok == /\ AllDigits(whole)
              /\ AllDigits(frac)
              /\ Len(whole) + Len(frac) > 0
        magnitude == 10 * NumVal(whole) + (IF frac = <<>> THEN 0 ELSE DigitVal(frac[1]))
    IN  IF ok
        THEN [raised |-> FALSE,
              value |-> IF signed /\ Head(s) = "-" THEN 0 - magnitude ELSE magnitude]
        ELSE [raised |-> TRUE, value |-> 0]

\* cloud_value and the form of the unit that goes with it
Declension(cloud_value) ==
    IF cloud_value % 10 = 1 /\ cloud_value % 100 # 11 THEN "ball"
    ELSE IF /\ 2 <= cloud_value % 10
            /\ cloud_value % 10 <= 4
            /\ (cloud_value % 100 < 10 \/ cloud_value % 100 >= 20)
         THEN "balla"
    ELSE "ballov"

\* cloudiness = weather_data.get('cloudiness', 'N/A') and its declension;
\* except (ValueError, IndexError): pass
Cloudiness(cloudiness) ==
    IF cloudiness # NA /\ \E p \in 1..Len(cloudiness) : cloudiness[p] \in {"ball", "balla", "ballov"}
    THEN LET word == FirstWord(cloudiness)
             n == ParseInt(word.value)
         IN  IF word.raised \/ n.raised THEN cloudiness
             ELSE IntText(n.value) \o <<" ", Declension(n.value)>>
    ELSE cloudiness

\* wind_info
WindInfo(direction, speed) ==
    LET wind_direction == format_value(direction)
        wind_speed == format_value(speed)
    IN  IF wind_direction = ND /\ wind_speed = ND THEN ND
        ELSE IF wind_direction = ND THEN wind_speed
        ELSE IF wind_speed = ND THEN wind_direction
        ELSE wind_direction \o <<",", " ">> \o wind_speed

\* thresholds of the annex, in tenths of a degree
Tier45 == -450
Tier48 == -480
Tier50 == -500
Tier52 == -520

\* faulty variant of AnnexTier: the most severe tier is tested first
AnnexTierSevereFirst(temperature) ==
    IF temperature <= Tier52 THEN "1-11"
    ELSE IF temperature <= Tier50 THEN "1-9"
    ELSE IF temperature <= Tier48 THEN "1-7"
    ELSE IF temperature <= Tier45 THEN "1-4"
    ELSE "none"

\* the if/elif chain under `if temperature is not None and temperature <= -45`
AnnexTier(temperature) ==
    IF temperature <= Tier45 THEN "1-4"
    ELSE IF temperature <= Tier48 THEN "1-7"
    ELSE IF temperature <= Tier50 THEN "1-9"
    ELSE IF temperature <= Tier52 THEN "1-11"
    ELSE "none"

WindowFromHour == 6
WindowToHour == 7
WindowToMinute == 30

\* faulty variant of InWindow: Sunday is not excluded
InWindowEveryDay(clock) ==
    \/ clock.hour = WindowFromHour
    \/ (clock.hour = WindowToHour /\ clock.minute <= WindowToMinute)

\* today != 6 and (hour == 6 or (hour == 7 and minute <= 30))
InWindow(clock) ==
    /\ clock.weekday # Sunday
    /\ \/ clock.hour = WindowFromHour
       \/ (clock.hour = WindowToHour /\ clock.minute <= WindowToMinute)

\* the annex of the message and the lines the call logs
Annex(weather_data, clock) ==
    IF InWindow(clock)
    THEN LET temperature == ParseFloat(Strip(Replace(weather_data.temperature, "degC")))
         IN  IF temperature.raised
             THEN [text |-> <<>>, log |-> <<"temperature is not a number">>]
             ELSE IF temperature.value <= Tier45
                  THEN [text |-> <<weather_data.observation_time[2],
                                   AnnexTier(temperature.value)>>,
                        log |-> <<>>]
                  ELSE [text |-> <<>>, log |-> <<>>]
    ELSE [text |-> <<>>, log |-> <<>>]

\* faulty variant of FormatWeatherMessage: the failed conversion is logged
\* at every call, whatever the clock
FormatLogsOutsideWindow(weather_data, clock) ==
    LET annex == Annex(weather_data, clock)
        temperature == ParseFloat(Strip(Replace(weather_data.temperature, "degC")))
    IN  [message |->
            [location |-> weather_data.location,
             date |-> clock.weekday,
             observation_time |-> weather_data.observation_time[2],
             temperature |-> weather_data.temperature,
             humidity |-> format_value(weather_data.humidity),
             pressure |-> format_value(weather_data.pressure),
             precipitation |-> format_value(weather_data.precipitation),
             cloudiness |-> format_value(Cloudiness(weather_data.cloudiness)),
             wind |-> WindInfo(weather_data.wind_direction, weather_data.wind_speed),
             annex |-> annex.text],
         log |-> IF temperature.raised THEN <<"temperature is not a number">> ELSE <<>>]

\* Scheduler._format_weather_message(weather_data) when the clock reads
\* clock: the fields of the message in the order of the text, and the lines
\* written to the log
FormatWeatherMessage(weather_data, clock) ==
    LET annex == Annex(weather_data, clock)
    IN  [message |->
            [location |-> weather_data.location,
             date |-> clock.weekday,
             observation_time |-> weather_data.observation_time[2],
             temperature |-> weather_data.temperature,
             humidity |-> format_value(weather_data.humidity),
             pressure |-> format_value(weather_data.pressure),
             precipitation |-> format_value(weather_data.precipitation),
             cloudiness |-> format_value(Cloudiness(weather_data.cloudiness)),
             wind |-> WindInfo(weather_data.wind_direction, weather_data.wind_speed),
             annex |-> annex.text],
         log |-> annex.log]

\* temperature texts of a record with the number each one denotes, in tenths
\* of a degree (None for a text that denotes no number): value + 'degC', or
\* 'N/A' when the page has no temperature row
Temperatures ==
    { [text |-> <<"-", "4", "4", ".", "9", "degC">>, tenths |-> -449],
      [text |-> <<"-", "4", "5", "degC">>, tenths |-> -450],
      [text |-> <<"-", "4", "6", ".", "0", "degC">>, tenths |-> -460],
      [text |-> <<"-", "4", "8", ".", "0", "degC">>, tenths |-> -480],
      [text |-> <<"-", "5", "0", ".", "0", "degC">>, tenths |-> -500],
      [text |-> <<"-", "5", "2", ".", "5", "degC">>, tenths |-> -525],
      [text |-> <<"4", "6", ".", "0", "degC">>, tenths |-> 460],
      [text |-> <<"-", "4", "6", ",", "0", "degC">>, tenths |-> None],
      [text |-> NA, tenths |-> None] }

Humidities == {NA, <<"8", "3", "%">>}
Pressures == {NA, <<"7", "5", "0", " ", "mmHg">>}
WindDirections == {NA, <<"NW">>}
WindSpeeds == {NA, <<"2", " ", "m/s">>}
Cloudinesses ==
    { NA, <<"0", " ", "ballov">>, <<"1", " ", "ballov">>, <<"3", " ", "ballov">>,
      <<"1", "1", " ", "ballov">>, <<" ", "ballov">> }

\* the dict returned by parse_weather_response
Record(t, h, p, c, wd, ws) ==
    [location |-> "Ytyk-Kyuyol",
     observation_time |-> <<"05.11.2026", "06:00">>,
     temperature |-> t, humidity |-> h, pressure |-> p,
     precipitation |-> <<"no precipitation">>,
     cloudiness |-> c, wind_direction |-> wd, wind_speed |-> ws]

\* datetime.now(YAKUTSK_TZ): weekday, hour and minute
Clocks ==
    { [weekday |-> d, hour |-> hm[1], minute |-> hm[2]] :
        d \in {0, 5, Sunday},
        hm \in { <<5, 59>>, <<6, 0>>, <<6, 15>>, <<6, 59>>, <<7, 0>>, <<7, 30>>,
                 <<7, 31>>, <<8, 0>> } }

InitFormat ==
    /\ now = 0
    /\ arg_time_str = T0600
    /\ ret_delay = Pending
    /\ next_check = Pending
    /\ task = <<>>
    /\ tasks = <<>>
    /\ parsers = <<>>
    /\ config = <<>>
    /\ today = 0
    /\ reloads = 0
    /\ mainpc = "format"
    /\ failed_jobs = {}
    /\ fetch = NoFetch
    /\ backoff = NoBackoff
    /\ loader = NoLoader
    /\ iter = NoIter
    /\ scan = NoScan
    /\ \E t \in Temperatures, h \in Humidities, p \in Pressures, c \in Cloudinesses,
          wd \in WindDirections, ws \in WindSpeeds, clock \in Clocks :
         fmt = [pc |-> "idle", weather_data |-> Record(t.text, h, p, c, wd, ws),
                tenths |-> t.tenths, clock |-> clock, calls |-> 0,
                message |-> <<>>, first |-> <<>>, log |-> <<>>]

formatFrame ==
    <<now, arg_time_str, ret_delay, next_check, task, tasks, parsers, config,
      today, reloads, mainpc, failed_jobs, fetch, backoff, loader, iter, scan>>

\* message = self._format_weather_message(weather_data), called again with
\* the same record at the same clock reading
CallFormat ==
    /\ mainpc = "format"
    /\ fmt.calls < MaxFormatCalls
    /\ LET r == FormatWeatherMessage(fmt.weather_data, fmt.clock)
       IN  fmt' = [fmt EXCEPT !.pc = "returned", !.calls = fmt.calls + 1,
                              !.message = r.message,
                              !.first = IF fmt.calls = 0 THEN r.message ELSE fmt.first,
                              !.log = r.log]
    /\ UNCHANGED formatFrame

NextFormat == CallFormat

SpecFormat == InitFormat /\ [][NextFormat]_vars

(***************************************************************************)
(* Configurations: a list of sites, each with a url and the two schedule   *)
(* lists of config.SiteSchedule.                                           *)
(***************************************************************************)
Site(url, weekdays, sunday) == [url |-> url, weekdays |-> weekdays, sunday |-> sunday]

CfgA == << Site("site1", <<T0600, T0600>>, <<T0715>>) >>
CfgB == << Site("site1", <<T2400>>, <<>>), Site("site2", <<T0600>>, <<T0600>>) >>

ConfigSet == {CfgA, CfgB}

\* schedule = parser.schedules.sunday if today == 6 else parser.schedules.weekdays
ListName(day) == IF day = Sunday THEN "sunday" ELSE "weekdays"

ScheduleOf(site, day) == IF day = Sunday THEN site.sunday ELSE site.weekdays

(***************************************************************************)
(* Scheduler.add_job on the state (tk, reg, prs): one task per entry of    *)
(* the applicable list, appended to the registry in list order; the parser *)
(* is appended to Scheduler.parsers when at least one task was added.      *)
(* (parser.schedules is a SiteSchedule object, always truthy, so the early *)
(* return of add_job is never taken.)                                      *)
(***************************************************************************)
\* faulty variant of AddJob: a time-of-day that is already in the list gets no
\* second task
AddJobNoDuplicates(st, site, day, g) ==
    LET schedule == ScheduleOf(site, day)
        kept == { i \in 1..Len(schedule) :
                    \A j \in 1..(i - 1) : schedule[j] # schedule[i] }
        n0 == Len(st.tk)
        new == [i \in 1..Cardinality(kept) |->
                  NewTask(schedule[CHOOSE k \in kept :
                                     Cardinality({m \in kept : m <= k}) = i],
                          site.url, g, ListName(day))]
    IN  [tk |-> st.tk \o new,
         reg |-> st.reg \o [i \in 1..Len(new) |-> n0 + i],
         prs |-> IF Len(new) > 0 THEN Append(st.prs, site.url) ELSE st.prs]

AddJob(st, site, day, g) ==
    LET schedule == ScheduleOf(site, day)
        n0 == Len(st.tk)
        new == [i \in 1..Len(schedule) |->
                  NewTask(schedule[i], site.url, g, ListName(day))]
    IN  [tk |-> st.tk \o new,
         reg |-> st.reg \o [i \in 1..Len(schedule) |-> n0 + i],
         prs |-> IF Len(schedule) > 0 THEN Append(st.prs, site.url) ELSE st.prs]

\* for parser in parsers: await scheduler.add_job(parser)      (initialize_bot)
RECURSIVE AddJobs(_, _, _, _)
AddJobs(st, sites, day, g) ==
    IF sites = <<>> THEN st
    ELSE AddJobs(AddJob(st, Head(sites), day, g), Tail(sites), day, g)

\* for site in self.config.sites: self.parsers.append(parser); add_job(parser)
RECURSIVE Recreate(_, _, _, _)
Recreate(st, sites, day, g) ==
    IF sites = <<>> THEN st
    ELSE Recreate(AddJob([st EXCEPT !.prs = Append(st.prs, Head(sites).url)],
                         Head(sites), day, g),
                  Tail(sites), day, g)

\* faulty variant of Cancel: the old tasks are left running
CancelForgotten(r) == r

\* asyncio.Task.cancel(): no effect on a finished task
Cancel(r) == IF r.pc \in {"cancelled", "failed"} THEN r ELSE [r EXCEPT !.cancel = TRUE]

\* for task in self.tasks: task.cancel()
CancelRegistered(tk, reg) ==
    [id \in 1..Len(tk) |->
        IF \E i \in 1..Len(reg) : reg[i] = id THEN Cancel(tk[id]) ELSE tk[id]]

\* Scheduler.update_config: no await of it suspends, so it is one step
UpdateConfigState(new, day, g) ==
    Recreate([tk |-> CancelRegistered(task, tasks), reg |-> <<>>, prs |-> <<>>],
             new, day, g)

(***************************************************************************)
(* Exception handling of one firing.  The handlers on the way are all      *)
(* `except Exception`; asyncio.CancelledError derives from BaseException   *)
(* and passes through them.                                                *)
(***************************************************************************)
\* faulty variant of ExceptExceptionCatches: a bare except
ExceptCatchesEverything(exc) == TRUE

ExceptExceptionCatches(exc) == exc # "CancelledError"

\* the task ends: the exception leaves _run_parser_task
TaskEnds(r, exc) ==
    [r EXCEPT !.pc = IF exc = "CancelledError" THEN "cancelled" ELSE "failed",
              !.cancel = FALSE, !.attempt = 0, !.outcome = "none",
              !.weather_data = "none", !.sends = 0, !.logged = 0, !.waited = 0]

\* faulty variant of LogNextCheck: nothing is computed or logged
LogNextCheckSkipped(r) == r

\* next_check_message = await self.log_next_check_time(): the task computes
\* _get_next_check_time over the registry and logs it
LogNextCheck(r) == [r EXCEPT !.logged = r.logged + 1]

\* faulty variant of ToCooldown: the loop goes on without asyncio.sleep(3)
ToCooldownSkipped(r, how) ==
    [LogNextCheck(r) EXCEPT !.pc = "sleeping", !.outcome = how, !.attempt = 0,
                            !.cancel = FALSE, !.weather_data = "none", !.waited = 0]

\* the firing is over: the finally block has logged the next check and the
\* task awaits asyncio.sleep(3)
ToCooldown(r, how) ==
    [LogNextCheck(r) EXCEPT !.pc = "cooldown", !.outcome = how, !.attempt = 0,
                            !.cancel = FALSE, !.weather_data = "none", !.waited = 0]

\* faulty variant of TaskBoundary: no handler around the firing
TaskBoundaryUnguarded(r, exc) == TaskEnds(r, exc)

\* try/except Exception/finally of _run_parser_task around fetch and notify
TaskBoundary(r, exc) ==
    IF ExceptExceptionCatches(exc) THEN ToCooldown(r, "error") ELSE TaskEnds(r, exc)

\* faulty variant of SendFailed: the send is repeated
SendFailedRetries(r) ==
    [r EXCEPT !.pc = "notifying", !.cancel = FALSE, !.sends = r.sends + 1]

\* send_telegram_notification: except Exception: logger.error(...); return
\* False, and _send_weather_message returns
SendFailed(r) == ToCooldown(r, "send_failed")

\* faulty variant of ProbeFailed: the page is requested all the same
ProbeFailedIgnored(r) == [r EXCEPT !.pc = "page", !.attempt = 0, !.cancel = FALSE]

\* if not await self.is_site_available(): logger.error(...); return [] -- and
\* _run_parser_task finds no data
ProbeFailed(r) == ToCooldown(r, "nodata")

\* exc is raised at the await point r.pc
Raise(r, exc) ==
    CASE r.pc \in {"created", "sleeping", "cooldown"} -> TaskEnds(r, exc)
      [] r.pc = "probe" ->
            \* is_site_available: except Exception -> return False -> []
            IF ExceptExceptionCatches(exc) THEN ProbeFailed(r)
            ELSE TaskBoundary(r, exc)
      [] r.pc \in {"page", "human"} ->
            \* fetch_and_parse: except Exception -> await asyncio.sleep(5)
            IF ExceptExceptionCatches(exc)
            THEN [r EXCEPT !.pc = "retry_sleep", !.cancel = FALSE]
            ELSE TaskBoundary(r, exc)
      [] r.pc = "retry_sleep" -> TaskBoundary(r, exc)
      [] r.pc = "notifying" ->
            \* send_telegram_notification: except Exception -> return False
            IF ExceptExceptionCatches(exc) THEN SendFailed(r)
            ELSE TaskBoundary(r, exc)
      [] OTHER -> r

PageRetries == 3

\* await asyncio.sleep(3) at the end of the loop body
CooldownSeconds == 3

\* what the await at r.pc can deliver when no cancellation is pending
Events(r) ==
    CASE r.pc = "created" -> {"run"}
      [] r.pc = "sleeping" -> {"wake"}
      [] r.pc = "probe" -> {"ok", "fail", "setup_error"}
      [] r.pc = "page" -> {"ok", "fail"}
      [] r.pc = "retry_sleep" -> {"wake"}
      [] r.pc \in {"human", "backoff"} ->
            {"record", "no_data", "format_error", "bot_unconfigured", "request_failed"}
      [] r.pc = "notifying" -> {"ok", "fail"}
      [] r.pc = "cooldown" -> {"wake"}
      [] OTHER -> {}

\* faulty variant of SendIfData: the notification does not depend on the data
SendAlways(r, e) ==
    [r EXCEPT !.pc = "notifying", !.attempt = 0,
              !.weather_data = IF e = "no_data" THEN "empty" ELSE "record"]

\* if weather_data: await self._send_weather_message(weather_data) / else
SendIfData(r, e) ==
    CASE e = "no_data" -> ToCooldown(r, "nodata")
      [] e = "format_error" -> TaskBoundary(r, "Exception")
      [] e = "bot_unconfigured" ->
            \* send_telegram_notification returns False before any await
            ToCooldown([r EXCEPT !.sends = r.sends + 1], "send_failed")
      [] OTHER ->
            \* await send_telegram_notification(message)
            [r EXCEPT !.pc = "notifying", !.attempt = 0, !.weather_data = "record",
                      !.sends = r.sends + 1]

\* faulty variant of StartOrLoop: the schedule list is selected again at every
\* iteration, by the weekday of the firing
StartOrLoopReselect(r) ==
    LET lists == {IF (now \div SecondsPerDay) % 7 = Sunday THEN config[k].sunday
                  ELSE config[k].weekdays :
                     k \in {k \in 1..Len(config) : config[k].url = r.parser}}
        entries == {l[1] : l \in {l \in lists : Len(l) > 0}}
    IN  IF ~ValidTimeStr(r.time_str) THEN TaskEnds(r, "ValueError")
        ELSE IF entries = {} THEN [r EXCEPT !.pc = "sleeping"]
        ELSE [r EXCEPT !.pc = "sleeping", !.time_str = CHOOSE e \in entries : TRUE]

\* while True: delay = self._get_delay_until(time_str); await asyncio.sleep(delay)
StartOrLoop(r) ==
    IF GetDelayUntil(r.time_str, now).raised THEN TaskEnds(r, "ValueError")
    ELSE [r EXCEPT !.pc = "sleeping"]

\* the coroutine runs from the await point r.pc, resumed with e, to its next await
Resume(r, e) ==
    CASE r.pc = "created" -> StartOrLoop(r)
      [] r.pc = "sleeping" ->
            [r EXCEPT !.pc = "probe", !.outcome = "none", !.sends = 0, !.logged = 0,
                      !.waited = 0]
      [] r.pc = "probe" ->
            IF e = "ok" THEN [r EXCEPT !.pc = "page", !.attempt = 0]
            ELSE IF e = "fail" THEN Raise(r, "Exception")
            ELSE TaskBoundary(r, "Exception")
      [] r.pc = "page" ->
            IF e = "ok" THEN [r EXCEPT !.pc = "human", !.attempt = 0]
            ELSE Raise(r, "Exception")
      [] r.pc = "retry_sleep" ->
            IF r.attempt + 1 < PageRetries
            THEN [r EXCEPT !.pc = "page", !.attempt = r.attempt + 1]
            ELSE ToCooldown(r, "nodata")
      [] r.pc = "human" ->
            \* _parse_weather calls get_weather(): a failed first attempt of
            \* fetch_with_retry is followed by time.sleep(delay)
            IF e = "request_failed" THEN [r EXCEPT !.pc = "backoff", !.attempt = 0]
            ELSE SendIfData(r, e)
      [] r.pc = "backoff" ->
            \* time.sleep returns and attempt r.attempt + 1 is made; when the
            \* last attempt fails get_weather returns None
            IF e # "request_failed" THEN SendIfData(r, e)
            ELSE IF LastAttempt(r.attempt + 1) THEN SendIfData(r, "no_data")
            ELSE [r EXCEPT !.attempt = r.attempt + 1]
      [] r.pc = "notifying" ->
            IF e = "ok" THEN ToCooldown(r, "sent") ELSE Raise(r, "Exception")
      [] r.pc = "cooldown" -> StartOrLoop([r EXCEPT !.waited = CooldownSeconds])
      [] OTHER -> r

\* one step of the event loop for a task: a pending cancellation is thrown
\* into the coroutine at its await point, otherwise the await completes
Step(r, e) == IF r.cancel THEN Raise(r, "CancelledError") ELSE Resume(r, e)

(***************************************************************************)
(* Main specification: run_bot_async, the registry and the tasks on one    *)
(* event loop.  Each action runs one coroutine from an await point that    *)
(* suspends to the next one.  Sleeps and network waits end at any time.    *)
(* The clock is tracked to the day only: sleeps end at any time, and now    *)
(* is 00:00 of the current day of the week.                                *)
(***************************************************************************)
\* Monday stands for the six days that are not Sunday
Weekdays == {0, Sunday}

\* now_yakutsk.weekday()
WeekdayOf(t) == (t \div SecondsPerDay) % 7

Init ==
    /\ now \in {At(d, 0, 0, 0) : d \in Weekdays}
    /\ arg_time_str = T0600
    /\ ret_delay = Pending
    /\ next_check = Pending
    /\ task = <<>>
    /\ tasks = <<>>
    /\ parsers = <<>>
    /\ config \in ConfigSet
    /\ today = WeekdayOf(now)
    /\ reloads = 0
    /\ mainpc = "start"
    /\ failed_jobs = {}
    /\ fetch = NoFetch
    /\ backoff = NoBackoff
    /\ fmt = NoFormat
    /\ loader = NoLoader
    /\ iter = NoIter
    /\ scan = NoScan

calcVars == <<now, arg_time_str, ret_delay, next_check>>

\* a task is inside the synchronous fetch_with_retry, in time.sleep(delay):
\* the thread of the event loop does not return to the loop
Blocked == \E id \in 1..Len(task) : task[id].pc = "backoff"

\* the event loop can resume the coroutine of task id
CanRun(id) == Blocked => task[id].pc = "backoff"

\* the event loop can resume run_bot_async
MainCanRun == ~Blocked

\* the event loop of asyncio.run(run_bot_async()) is running
LoopRunning == mainpc \in {"health", "loop", "stopping", "gather", "reg_loop", "poll"}

TaskIds == 1..Len(task)

NotDone == {id \in TaskIds : ~Done(id)}

\* run_bot_async up to `await health_server.start()`: initialize_bot creates
\* the Scheduler and registers every site of the loaded config
InitializeBot ==
    /\ mainpc = "start"
    /\ LET day == WeekdayOf(now)
           st == AddJobs([tk |-> <<>>, reg |-> <<>>, prs |-> <<>>], config, day, 0)
       IN  /\ task' = st.tk
           /\ tasks' = st.reg
           /\ parsers' = st.prs
           /\ today' = day
    /\ mainpc' = "health"
    /\ UNCHANGED <<backoff, fmt, loader, iter, scan, failed_jobs, fetch, calcVars, config, reloads>>

\* await health_server.start() returns, or raises and the finally block starts
HealthStart ==
    /\ mainpc = "health"
    /\ MainCanRun
    /\ \E ok \in BOOLEAN : mainpc' = IF ok THEN "loop" ELSE "stopping"
    /\ UNCHANGED <<backoff, fmt, loader, iter, scan, failed_jobs, fetch, calcVars, task, tasks, parsers, config, today, reloads>>

\* main loop: load_if_changed returned a config that differs from the running one
ReloadConfig ==
    /\ mainpc = "loop"
    /\ MainCanRun
    /\ \E new \in ConfigSet \ {config} :
         LET day == WeekdayOf(now)
             st == UpdateConfigState(new, day, reloads + 1)
         IN  /\ Len(st.tk) <= MaxTasks
             /\ task' = st.tk
             /\ tasks' = st.reg
             /\ parsers' = st.prs
             /\ config' = new
             /\ today' = day
    /\ reloads' = reloads + 1
    /\ UNCHANGED <<backoff, fmt, loader, iter, scan, failed_jobs, fetch, calcVars, mainpc>>

\* one step of a task coroutine
TaskRun ==
    /\ LoopRunning
    /\ \E id \in {i \in NotDone : CanRun(i)} :
         \E e \in (IF task[id].cancel THEN {"cancel"} ELSE Events(task[id])) :
            task' = [task EXCEPT ![id] = Step(task[id], e)]
    /\ UNCHANGED <<backoff, fmt, loader, iter, scan, failed_jobs, fetch, calcVars, tasks, parsers, config, today, reloads, mainpc>>

\* asyncio.run on an interrupt.  Python >= 3.11 cancels the main task only;
\* older versions cancel every task of the loop.  The main task catches
\* CancelledError at `await asyncio.sleep(30)` and enters the finally block;
\* it does so when the event loop resumes it.
Interrupt ==
    /\ mainpc = "loop"
    /\ MainCanRun
    /\ \E all \in BOOLEAN :
         task' = IF all THEN [id \in TaskIds |-> Cancel(task[id])] ELSE task
    /\ mainpc' = "stopping"
    /\ UNCHANGED <<backoff, fmt, loader, iter, scan, failed_jobs, fetch, calcVars, tasks, parsers, config, today, reloads>>

\* finally: await health_server.stop(); tasks = all other tasks of the loop
\* (asyncio.all_tasks() holds the tasks that are not done);
\* if tasks: await asyncio.gather(*tasks), else close_bot_session()
HealthStop ==
    /\ mainpc = "stopping"
    /\ MainCanRun
    /\ mainpc' = IF NotDone = {} THEN "closed" ELSE "gather"
    /\ UNCHANGED <<backoff, fmt, loader, iter, scan, failed_jobs, fetch, calcVars, task, tasks, parsers, config, today, reloads>>

\* asyncio.gather returns when every gathered task is done, then
\* close_bot_session.  No task is created after the gather started, so the
\* gathered tasks are done exactly when no task of the loop is left.
GatherReturns ==
    /\ mainpc = "gather"
    /\ NotDone = {}
    /\ mainpc' = "closed"
    /\ UNCHANGED <<backoff, fmt, loader, iter, scan, failed_jobs, fetch, calcVars, task, tasks, parsers, config, today, reloads>>

\* midnight passes while the event loop runs
NextDay ==
    /\ LoopRunning
    /\ \E d \in Weekdays \ {WeekdayOf(now)} : now' = At(d, 0, 0, 0)
    /\ UNCHANGED <<backoff, fmt, loader, iter, scan, failed_jobs, fetch, arg_time_str, ret_delay, next_check, task, tasks, parsers,
                   config, today, reloads, mainpc>>

Next ==
    \/ InitializeBot
    \/ HealthStart
    \/ ReloadConfig
    \/ TaskRun
    \/ Interrupt
    \/ HealthStop
    \/ GatherReturns
    \/ NextDay

Spec == Init /\ [][Next]_vars

(***************************************************************************)
(* Registration specification: the two registration loops when add_job     *)
(* raises for some of the sites.  add_job is taken to raise before it has  *)
(* created a task.                                                         *)
(***************************************************************************)
MaxReloads == 2
MaxRegTasks == 4    \* tasks ever created in the registration specification

Urls(sites) == {sites[k].url : k \in 1..Len(sites)}

\* initialize_bot: for parser in parsers: try: await scheduler.add_job(parser)
\* except Exception: failed_jobs += 1; continue
RECURSIVE AddJobsRaising(_, _, _, _, _)
AddJobsRaising(st, sites, day, g, raising) ==
    IF sites = <<>> THEN st
    ELSE IF Head(sites).url \in raising
         THEN AddJobsRaising(st, Tail(sites), day, g, raising)
         ELSE AddJobsRaising(AddJob(st, Head(sites), day, g), Tail(sites), day, g, raising)

\* update_config: for site in self.config.sites: self.parsers.append(parser);
\* await self.add_job(parser) -- no handler, the exception leaves the loop
RECURSIVE RecreateRaising(_, _, _, _, _)
RecreateRaising(st, sites, day, g, raising) ==
    IF sites = <<>> THEN st
    ELSE LET url == Head(sites).url
             st1 == [tk |-> st.tk, reg |-> st.reg, prs |-> Append(st.prs, url)]
             st2 == AddJob(st1, Head(sites), day, g)
         IN  IF url \in raising
             THEN [tk |-> st1.tk, reg |-> st1.reg, prs |-> st1.prs, raised |-> url]
             ELSE RecreateRaising([tk |-> st2.tk, reg |-> st2.reg, prs |-> st2.prs,
                                   raised |-> "none"],
                                  Tail(sites), day, g, raising)

InitReg ==
    /\ now \in {At(d, 0, 0, 0) : d \in Weekdays}
    /\ arg_time_str = T0600
    /\ ret_delay = Pending
    /\ next_check = Pending
    /\ task = <<>>
    /\ tasks = <<>>
    /\ parsers = <<>>
    /\ config \in ConfigSet
    /\ today = WeekdayOf(now)
    /\ reloads = 0
    /\ mainpc = "reg_start"
    /\ failed_jobs = {}
    /\ fetch = NoFetch
    /\ backoff = NoBackoff
    /\ fmt = NoFormat
    /\ loader = NoLoader
    /\ iter = NoIter
    /\ scan = NoScan

\* initialize_bot(config) when add_job raises for the sites in raising
RegisterAtStartup ==
    /\ mainpc = "reg_start"
    /\ \E raising \in SUBSET Urls(config) :
         LET day == WeekdayOf(now)
             st == AddJobsRaising([tk |-> <<>>, reg |-> <<>>, prs |-> <<>>],
                                  config, day, 0, raising)
         IN  /\ task' = st.tk
             /\ tasks' = st.reg
             /\ parsers' = st.prs
             /\ today' = day
             /\ failed_jobs' = raising
    /\ mainpc' = "reg_loop"
    /\ UNCHANGED <<calcVars, config, reloads, fetch, backoff, fmt, loader, iter, scan>>

\* scheduler.update_config(new_config) when add_job raises for the sites in
\* raising: the exception leaves update_config and the main loop re-raises it
RegisterAtReload ==
    /\ mainpc = "reg_loop"
    /\ reloads < MaxReloads
    /\ \E new \in ConfigSet \ {config} : \E raising \in SUBSET Urls(new) :
         LET day == WeekdayOf(now)
             st == RecreateRaising([tk |-> CancelRegistered(task, tasks), reg |-> <<>>,
                                    prs |-> <<>>, raised |-> "none"],
                                   new, day, reloads + 1, raising)
         IN  /\ Len(st.tk) <= MaxRegTasks
             /\ task' = st.tk
             /\ tasks' = st.reg
             /\ parsers' = st.prs
             /\ config' = new
             /\ today' = day
             /\ failed_jobs' = IF st.raised = "none" THEN {} ELSE {st.raised}
             /\ mainpc' = IF st.raised = "none" THEN "reg_loop" ELSE "reg_aborted"
    /\ reloads' = reloads + 1
    /\ UNCHANGED <<calcVars, fetch, backoff, fmt, loader, iter, scan>>

NextReg == RegisterAtStartup \/ RegisterAtReload \/ NextDay

SpecReg == InitReg /\ [][NextReg]_vars

(***************************************************************************)
(* Scan specification: the main specification together with one call of   *)
(* _get_next_check_time carried out task by task, as the for loop over     *)
(* self.tasks does: the list iterator holds an index into the live list.   *)
(* The call is made by add_job, by the finally block of a task or by       *)
(* run_bot_async, on the thread of the event loop.  scan:                  *)
(*   pc          "idle", "running" (inside the for loop) or "done"         *)
(*   i           index of the list iterator                                *)
(*   next_check  the local variable next_check, at "done" the result       *)
(*   snapshot    self.tasks when the call started (history)                *)
(***************************************************************************)
\* faulty variant of ScanYields: the loop body awaits, so that the event loop
\* runs other coroutines between two tasks of the scan
ScanYieldsAtEveryTask == TRUE

\* the loop body of _get_next_check_time has no await: the event loop runs
\* nothing else until the function returns
ScanYields == FALSE

\* the event loop may run another coroutine
OthersMayRun == scan.pc = "idle" \/ (ScanYields /\ scan.pc = "running")

\* next_check = None; try: for task in self.tasks:
ScanStart ==
    /\ scan.pc = "idle"
    /\ LoopRunning
    /\ ~Blocked
    /\ scan' = [pc |-> "running", i |-> 1, next_check |-> None, snapshot |-> tasks]
    /\ UNCHANGED <<calcVars, task, tasks, parsers, config, today, reloads, mainpc,
                   failed_jobs, fetch, backoff, fmt, loader, iter>>

\* one iteration of the for loop, or its end: return next_check; a ValueError
\* of _get_delay_until is caught around the loop: return None
ScanStep ==
    /\ scan.pc = "running"
    /\ scan' =
         IF scan.i > Len(tasks) THEN [scan EXCEPT !.pc = "done"]
         ELSE IF ~ScanTakes(tasks[scan.i]) THEN [scan EXCEPT !.i = scan.i + 1]
         ELSE LET d == GetDelayUntil(task[tasks[scan.i]].time_str, now)
                  task_time_yakutsk == now + d.value
              IN  IF d.raised THEN [scan EXCEPT !.pc = "done", !.next_check = None]
                  ELSE IF scan.next_check = None \/ task_time_yakutsk < scan.next_check
                       THEN [scan EXCEPT !.i = scan.i + 1, !.next_check = task_time_yakutsk]
                       ELSE [scan EXCEPT !.i = scan.i + 1]
    /\ UNCHANGED <<calcVars, task, tasks, parsers, config, today, reloads, mainpc,
                   failed_jobs, fetch, backoff, fmt, loader, iter>>

\* the caller goes on with the result
ScanReturns ==
    /\ scan.pc = "done"
    /\ scan' = NoScan
    /\ UNCHANGED <<calcVars, task, tasks, parsers, config, today, reloads, mainpc,
                   failed_jobs, fetch, backoff, fmt, loader, iter>>

NextScan ==
    \/ ScanStart
    \/ ScanStep
    \/ ScanReturns
    \/ (OthersMayRun /\ Next)

SpecScan == Init /\ [][NextScan]_vars

(***************************************************************************)
(* Reload specification: config.yaml, the ConfigLoader of run_bot_async    *)
(* and the poll of the main loop.  The file is written by the operator at  *)
(* any time; BOT_TOKEN is set (run_bot_async returns otherwise).  loader:  *)
(*   file, mtime     content and modification time of config.yaml          *)
(*   last_modified   ConfigLoader._last_modified                           *)
(*   cached_config   ConfigLoader._cached_config                           *)
(*   new_config      what the latest load / load_if_changed returned       *)
(*   log             what that call logged: "none", "error" or "loaded"    *)
(***************************************************************************)
MaxMtime == 3

\* a file that yaml.safe_load or Config(**config_data) rejects
Broken == [kind |-> "broken", value |-> <<>>]

\* no file at config_path
Missing == [kind |-> "missing", value |-> <<>>]

\* a file that loads and validates as the config c
FileOf(c) == [kind |-> "config", value |-> c]

FileContents == {Broken, Missing} \cup {FileOf(c) : c \in ConfigSet}

\* yaml.safe_load and Config(**config_data) on a file that loads
Parsed(content) == content.value

NoConfig == [none |-> TRUE, value |-> <<>>]

Some(c) == [none |-> FALSE, value |-> c]

\* ConfigLoader.has_changed: os.path.getmtime raises OSError for a missing file
HasChanged(l) == l.file # Missing /\ l.mtime > l.last_modified

\* ConfigLoader.load: [self, ret]; every exception is caught and None returned
Load(l) ==
    IF l.file \in {Broken, Missing}
    THEN [self |-> [l EXCEPT !.log = "error"], ret |-> NoConfig]
    ELSE [self |-> [l EXCEPT !.last_modified = l.mtime,
                             !.cached_config = Some(Parsed(l.file)),
                             !.log = "loaded"],
          ret |-> Some(Parsed(l.file))]

\* ConfigLoader.load_if_changed: [self, ret]
LoadIfChanged(l) ==
    IF HasChanged(l) /\ ~Load(l).ret.none THEN Load(l)
    ELSE IF HasChanged(l) THEN [self |-> Load(l).self, ret |-> l.cached_config]
    ELSE [self |-> [l EXCEPT !.log = "none"], ret |-> l.cached_config]

\* faulty variant of ShouldReload: whatever load_if_changed returns is applied
ShouldReloadAnyConfig(new, running) == ~new.none

\* if new_config and new_config != config:
ShouldReload(new, running) == ~new.none /\ new.value # running

InitReload ==
    /\ now \in {At(d, 0, 0, 0) : d \in Weekdays}
    /\ arg_time_str = T0600
    /\ ret_delay = Pending
    /\ next_check = Pending
    /\ task = <<>>
    /\ tasks = <<>>
    /\ parsers = <<>>
    /\ config = <<>>
    /\ today = WeekdayOf(now)
    /\ reloads = 0
    /\ mainpc = "load"
    /\ failed_jobs = {}
    /\ fetch = NoFetch
    /\ backoff = NoBackoff
    /\ fmt = NoFormat
    /\ \E c \in FileContents, m \in 1..MaxMtime :
         loader = [file |-> c, mtime |-> m, last_modified |-> 0,
                   cached_config |-> NoConfig, new_config |-> NoConfig,
                   log |-> "none"]
    /\ iter = NoIter
    /\ scan = NoScan

reloadFrame == <<calcVars, failed_jobs, fetch, backoff, fmt, iter, scan>>

\* config = config_loader.load(); if not config: return; then initialize_bot
LoadAtStartup ==
    /\ mainpc = "load"
    /\ LET res == Load(loader)
           day == WeekdayOf(now)
           st == AddJobs([tk |-> <<>>, reg |-> <<>>, prs |-> <<>>], res.ret.value, day, 0)
       IN  /\ loader' = [res.self EXCEPT !.new_config = res.ret]
           /\ IF res.ret.none
              THEN /\ mainpc' = "exit"
                   /\ UNCHANGED <<task, tasks, parsers, config, today>>
              ELSE /\ mainpc' = "poll"
                   /\ config' = res.ret.value
                   /\ task' = st.tk
                   /\ tasks' = st.reg
                   /\ parsers' = st.prs
                   /\ today' = day
    /\ UNCHANGED <<reloadFrame, reloads>>

\* one iteration of the main loop: await asyncio.sleep(30) returns, then
\* load_if_changed and, for a new config, update_config
PollConfig ==
    /\ mainpc = "poll"
    /\ LET res == LoadIfChanged(loader)
           day == WeekdayOf(now)
           st == UpdateConfigState(res.ret.value, day, reloads + 1)
       IN  /\ loader' = [res.self EXCEPT !.new_config = res.ret]
           /\ IF ShouldReload(res.ret, config)
              THEN /\ reloads < MaxReloads
                   /\ task' = st.tk
                   /\ tasks' = st.reg
                   /\ parsers' = st.prs
                   /\ config' = res.ret.value
                   /\ today' = day
                   /\ reloads' = reloads + 1
              ELSE UNCHANGED <<task, tasks, parsers, config, today, reloads>>
    /\ UNCHANGED <<reloadFrame, mainpc>>

\* the operator writes, touches, breaks or removes config.yaml
WriteFile ==
    /\ mainpc = "poll"
    /\ \E c \in FileContents, m \in 1..MaxMtime :
         /\ <<c, m>> # <<loader.file, loader.mtime>>
         /\ loader' = [loader EXCEPT !.file = c, !.mtime = m]
    /\ UNCHANGED <<reloadFrame, task, tasks, parsers, config, today, reloads, mainpc>>

NextReload == LoadAtStartup \/ PollConfig \/ WriteFile \/ NextDay

SpecReload == InitReload /\ [][NextReload]_vars

(***************************************************************************)
(* Claims about the task loop, the registry and shutdown, checked under    *)
(* Spec.                                                                   *)
(***************************************************************************)
\* C1: a task with a valid time-of-day and no cancellation requested is never
\* ended by a step, whatever the firing delivers (exception in the fetch,
\* empty result, exception while formatting or sending, failed send); and
\* when its cooldown ends it sleeps for the next occurrence.
C1_FailuresNeverEndTask ==
    [][\A id \in TaskIds :
          LET kept == /\ task'[id].pc \notin {"cancelled", "failed"}
                      /\ (task[id].pc = "cooldown" /\ task'[id].pc # "cooldown")
                            => task'[id].pc = "sleeping"
          IN  \/ kept
              \/ task[id].cancel
              \/ Done(id)
              \/ ~ValidTimeStr(task[id].time_str)]_vars

\* a task sleeps for its next occurrence after a firing that raised at the
\* task boundary
C1_Witness ==
    \E id \in TaskIds :
        /\ ValidTimeStr(task[id].time_str)
        /\ task[id].pc = "sleeping"
        /\ task[id].outcome = "error"
        /\ ~task[id].cancel

\* C2: within one task a fetch starts only when the scheduling sleep has
\* ended, a notification starts only from a fetch that returned a non-empty
\* record, the cooldown starts only from the firing, and the next sleep
\* starts only from the cooldown (or from the creation of the task).
C2_IterationOrder ==
    [][\A id \in TaskIds :
          LET p == task[id].pc
              q == task'[id].pc
          IN  p # q =>
                /\ q = "probe" => p = "sleeping"
                /\ q = "page" => p \in {"probe", "retry_sleep"}
                /\ q = "human" => p = "page"
                /\ q = "backoff" => p = "human"
                /\ q = "notifying" =>
                       p \in {"human", "backoff"} /\ task'[id].weather_data = "record"
                /\ q = "cooldown" =>
                       p \in {"probe", "page", "retry_sleep", "human", "backoff",
                              "notifying"}
                /\ q = "sleeping" => p \in {"created", "cooldown"}]_vars

\* a task sleeps again after an iteration that fetched a record and sent it
C2_Witness ==
    \E id \in TaskIds :
        /\ task[id].pc = "sleeping"
        /\ task[id].outcome = "sent"

\* C3: a task whose cancellation was requested while it is in its scheduling
\* sleep or anywhere inside its fetch does nothing but end as cancelled: it
\* never reaches the notification and the fetch in progress yields nothing.
C3_CancelledNeverSends ==
    [][\A id \in TaskIds :
          (/\ task[id].cancel
           /\ task[id].pc \in {"created", "sleeping", "probe", "page",
                               "retry_sleep", "human"}) =>
             \/ task'[id].pc = "cancelled"
             \/ task'[id].pc = task[id].pc /\ task'[id].cancel]_vars

\* update_config has requested the cancellation of a task that is inside its
\* fetch
C3_Witness ==
    \E id \in TaskIds :
        /\ task[id].cancel
        /\ task[id].pc \in {"probe", "page", "retry_sleep", "human"}
        /\ \A i \in 1..Len(tasks) : tasks[i] # id

C34_Claimed_ParsersOncePerSite ==
    LET WithTasks == {task[tasks[i]].parser : i \in 1..Len(tasks)}
        Held(url) == {i \in 1..Len(parsers) : parsers[i] = url}
    IN  /\ \A url \in WithTasks : Cardinality(Held(url)) = 1
        /\ \A i \in 1..Len(parsers) : parsers[i] \in WithTasks
        /\ Len(parsers) = Cardinality(WithTasks)

\* C5 as claimed: when update_config has returned, every task of the previous
\* configuration is done.
C5_Claimed_OldTasksDoneAfterReload ==
    reloads > 0 =>
       \A id \in TaskIds : task[id].gen < reloads => Done(id)

\* C6 as claimed: when the finally block of run_bot_async waits for the
\* remaining tasks, every one of them has been cancelled.
C6_Claimed_ShutdownCancelsTasks ==
    mainpc = "gather" => \A id \in NotDone : task[id].cancel

\* the entries add_job is given, site by site in configuration order: one
\* (parser, time_str) pair per entry of the applicable schedule list
RECURSIVE ScheduleEntries(_, _)
ScheduleEntries(sites, day) ==
    IF sites = <<>> THEN <<>>
    ELSE LET list == ScheduleOf(Head(sites), day)
         IN  [i \in 1..Len(list) |-> [parser |-> Head(sites).url, time_str |-> list[i]]]
                \o ScheduleEntries(Tail(sites), day)

\* C11: registering the sites creates exactly one task per entry of each
\* site's applicable schedule list, in list order: the registry is as long as
\* the lists together, its tasks are pairwise distinct, and a time-of-day
\* that appears k times has k tasks of its own.
C11_OneTaskPerEntry ==
    mainpc \in {"health", "loop", "stopping", "gather", "closed"} =>
       LET expected == ScheduleEntries(config, today)
       IN  /\ Len(tasks) = Len(expected)
           /\ \A i \in 1..Len(tasks) :
                 /\ tasks[i] \in TaskIds
                 /\ task[tasks[i]].parser = expected[i].parser
                 /\ task[tasks[i]].time_str = expected[i].time_str
                 /\ \A j \in 1..Len(tasks) : i # j => tasks[i] # tasks[j]

\* the two tasks of a time-of-day listed twice run independently: one is in
\* its fetch while the other still sleeps
C11_Witness ==
    \E i, j \in 1..Len(tasks) :
        /\ i # j
        /\ task[tasks[i]].parser = task[tasks[j]].parser
        /\ task[tasks[i]].time_str = task[tasks[j]].time_str
        /\ task[tasks[i]].pc = "sleeping"
        /\ task[tasks[j]].pc = "page"

\* C12: the schedule list of a site is selected once, by the weekday read at
\* registration: every registered task holds an entry of that list of its
\* site, and no step changes the time-of-day, the list or the parser bound
\* to a task, whatever the day of the week has become.
C12_ScheduleBoundAtRegistration ==
    [][\A id \in TaskIds :
          /\ task'[id].time_str = task[id].time_str
          /\ task'[id].sched = task[id].sched
          /\ task'[id].parser = task[id].parser
          /\ (\E i \in 1..Len(tasks) : tasks[i] = id) =>
                /\ task[id].sched = ListName(today)
                /\ \E k \in 1..Len(config) :
                      /\ config[k].url = task[id].parser
                      /\ \E j \in 1..Len(ScheduleOf(config[k], today)) :
                            ScheduleOf(config[k], today)[j] = task[id].time_str]_vars

\* it is Sunday and a task registered on a weekday fires with its weekday
\* time "06:00", while no task holds the Sunday entry "07:15" of its site
C12_Witness ==
    /\ WeekdayOf(now) = Sunday
    /\ config = CfgA
    /\ \E i \in 1..Len(tasks) :
          /\ task[tasks[i]].sched = "weekdays"
          /\ task[tasks[i]].time_str = T0600
          /\ task[tasks[i]].pc = "notifying"
    /\ \A id \in TaskIds : task[id].time_str # T0715

\* C13 as claimed: a malformed time-of-day string is rejected at registration,
\* so no task is ever created for it and the registry holds only tasks with
\* a valid time-of-day.
C13_Claimed_MalformedEntryRejected ==
    \A id \in TaskIds : ValidTimeStr(task[id].time_str)

\* C19 as claimed: the scheduling sleep, the backoff sleep inside the fetcher,
\* the human-cadence delay and the cooldown are suspension points: while a
\* task is in one of them, the event loop can resume every other task (a
\* task whose sleep has ended starts its fetch) and the main coroutine (a
\* reload is processed).
C19_Claimed_WaitsAreSuspensionPoints ==
    \A id \in TaskIds :
        task[id].pc \in {"sleeping", "backoff", "human", "cooldown"} =>
           /\ \A other \in NotDone \ {id} : CanRun(other)
           /\ MainCanRun

\* C20 as claimed: the human-cadence delay comes after the fetch that yields
\* the weather record has succeeded, so once a task is in the delay its
\* firing has its record: no failed weather request and no empty result
\* follows the delay.
C20_Claimed_DelayAfterSuccessfulFetch ==
    [][\A id \in TaskIds :
          (task[id].pc = "human" /\ ~task[id].cancel) =>
             /\ task'[id].pc # "backoff"
             /\ ~(task'[id].pc = "cooldown" /\ task'[id].outcome = "nodata")]_vars

\* the await points between the end of the scheduling sleep and the finally
\* block of a firing
Firing == {"probe", "page", "retry_sleep", "human", "backoff", "notifying"}

\* C28: the notifier is called at most once in a firing; a send that fails
\* is not repeated: the task goes from the send to its cooldown, and from
\* there to the sleep for its next firing.
C28_SendNeverRetried ==
    [][\A id \in TaskIds :
          /\ task'[id].sends <= 1
          /\ (task[id].pc = "notifying" /\ ~task[id].cancel
                 /\ task'[id].pc # "notifying") =>
                /\ task'[id].pc = "cooldown"
                /\ task'[id].outcome \in {"sent", "send_failed"}
                /\ task'[id].sends = task[id].sends
          /\ (task[id].pc = "cooldown" /\ task[id].outcome = "send_failed"
                 /\ ~task[id].cancel /\ task'[id].pc # "cooldown") =>
                task'[id].pc = "sleeping"]_vars

\* a task sleeps for its next firing after a firing whose only send failed
C28_Witness ==
    \E id \in TaskIds :
        /\ task[id].pc = "sleeping"
        /\ task[id].outcome = "send_failed"
        /\ task[id].sends = 1

\* C29: a firing that is not cancelled ends, whatever its outcome, in the
\* cooldown; the delay to the next instant is computed only when the 3
\* seconds of the cooldown are over, so a task starts a fetch at least 3
\* seconds after its previous firing.
C29_CooldownAfterEveryFiring ==
    [][\A id \in TaskIds :
          /\ (task[id].pc \in Firing /\ ~task[id].cancel
                 /\ task'[id].pc \notin Firing) =>
                (task'[id].pc = "cooldown" /\ task'[id].waited = 0)
          /\ task'[id].pc = "sleeping" =>
                \/ task[id].pc = "sleeping"
                \/ task[id].pc = "created"
                \/ (task[id].pc = "cooldown" /\ task'[id].waited = CooldownSeconds)
          /\ (task'[id].pc = "probe" /\ task[id].pc # "probe"
                 /\ task[id].outcome # "none") =>
                task[id].waited >= CooldownSeconds]_vars

\* after a firing that raised, the cooldown is over and the task sleeps for
\* its next instant
C29_Witness ==
    \E id \in TaskIds :
        /\ task[id].pc = "sleeping"
        /\ task[id].outcome = "error"
        /\ task[id].waited = CooldownSeconds

C14_Claimed_OtherSitesStillRegistered ==
    mainpc \in {"reg_loop", "reg_aborted"} =>
       \A k \in 1..Len(config) :
          config[k].url \notin failed_jobs =>
             \A j \in 1..Len(ScheduleOf(config[k], today)) :
                \E i \in 1..Len(tasks) :
                   /\ task[tasks[i]].parser = config[k].url
                   /\ task[tasks[i]].time_str = ScheduleOf(config[k], today)[j]

(***************************************************************************)
(* Task specification: one task of _run_parser_task on a clock of seconds. *)
(* asyncio.sleep(d) returns d seconds after the call or later, a network   *)
(* await after any time, and the clock never runs backwards.  iter:        *)
(*   target      the instant target_time_yakutsk of the latest             *)
(*               _get_delay_until call of the loop                         *)
(*   fired       the instant the latest firing was scheduled for           *)
(*   wake_at     earliest instant at which the pending await returns       *)
(*   late        an await has taken longer than that since the task slept  *)
(*               or woke: one slow await per sleep and one per firing      *)
(*   firings     firings started so far                                    *)
(*   probes, pages, weather   requests of the latest firing sent by        *)
(*               is_site_available, fetch_and_parse and fetch_with_retry   *)
(*   probe       result of its probe: "none", "ok", "fail", "setup_error"  *)
(*   page_fails, page_ok      results of its page requests                 *)
(***************************************************************************)
MaxFirings == 2

\* await asyncio.sleep(5) after a failed page request
RetrySleepSeconds == 5

\* delay = random.uniform(3, 5) of _simulate_human_behavior, in whole seconds
HumanMinSeconds == 3

TaskTimes == {T0600, T0000, T2400}

TaskNowSet == { At(0, 5, 59, 59), At(0, 6, 0, 0), At(0, 6, 0, 1), At(6, 23, 59, 59) }

\* what a slow await adds to the clock
Lateness == {1, SecondsPerDay}

\* shortest duration of the await the coroutine r has reached at instant t
SleepOf(r, t) ==
    CASE r.pc = "sleeping" -> GetDelayUntil(r.time_str, t).value
      [] r.pc = "cooldown" -> CooldownSeconds
      [] r.pc = "retry_sleep" -> RetrySleepSeconds
      [] r.pc = "human" -> HumanMinSeconds
      [] OTHER -> 0

\* the requests and results of the firing after the step from r to r2 on e
Requests(it, r, e, r2) ==
    LET begun == IF r.pc = "sleeping"
                 THEN [it EXCEPT !.fired = it.target, !.firings = it.firings + 1,
                                 !.probes = 0, !.probe = "none", !.pages = 0,
                                 !.page_fails = 0, !.page_ok = FALSE, !.weather = 0]
                 ELSE it
        answered ==
            CASE r.pc = "probe" /\ ~r.cancel -> [begun EXCEPT !.probe = e]
              [] r.pc = "page" /\ ~r.cancel /\ e = "ok" -> [begun EXCEPT !.page_ok = TRUE]
              [] r.pc = "page" /\ ~r.cancel /\ e # "ok" ->
                    [begun EXCEPT !.page_fails = begun.page_fails + 1]
              [] r.pc \in {"human", "backoff"} /\ ~r.cancel ->
                    [begun EXCEPT !.weather = begun.weather + 1]
              [] OTHER -> begun
    IN  [answered EXCEPT
           !.probes = IF r2.pc = "probe" /\ r.pc # "probe" THEN @ + 1 ELSE @,
           !.pages = IF r2.pc = "page" /\ r.pc # "page" THEN @ + 1 ELSE @]

\* the clock bookkeeping after the step to r2 at instant t
Clock(it, r2, t) ==
    [it EXCEPT !.target = IF r2.pc = "sleeping" THEN Target(r2.time_str, t) ELSE @,
               !.wake_at = t + SleepOf(r2, t),
               !.late = IF r2.pc \in {"sleeping", "probe"} THEN FALSE ELSE @]

InitTask ==
    /\ now \in TaskNowSet
    /\ arg_time_str = T0600
    /\ ret_delay = Pending
    /\ next_check = Pending
    /\ \E s \in TaskTimes : task = << NewTask(s, "site1", 0, "weekdays") >>
    /\ tasks = <<1>>
    /\ parsers = <<"site1">>
    /\ config = CfgA
    /\ today = WeekdayOf(now)
    /\ reloads = 0
    /\ mainpc = "task"
    /\ failed_jobs = {}
    /\ fetch = NoFetch
    /\ backoff = NoBackoff
    /\ fmt = NoFormat
    /\ loader = NoLoader
    /\ iter = NoIter
    /\ scan = NoScan

taskFrame ==
    <<arg_time_str, ret_delay, next_check, tasks, parsers, config, today, reloads,
      mainpc, failed_jobs, fetch, backoff, fmt, loader, scan>>

\* the event loop resumes the task when its await is over
TaskStepTimed ==
    /\ mainpc = "task"
    /\ ~Done(1)
    /\ now >= iter.wake_at
    /\ task[1].pc = "sleeping" => iter.firings < MaxFirings
    /\ \E e \in Events(task[1]) :
         LET r2 == Step(task[1], e)
         IN  /\ task' = [task EXCEPT ![1] = r2]
             /\ iter' = Clock(Requests(iter, task[1], e, r2), r2, now)
    /\ UNCHANGED <<taskFrame, now>>

\* time passes while the task awaits: up to the end of a sleep, or beyond
Elapse ==
    /\ mainpc = "task"
    /\ ~Done(1)
    /\ task[1].pc # "created"
    /\ \/ /\ now < iter.wake_at
          /\ now' = iter.wake_at
          /\ UNCHANGED iter
       \/ /\ now >= iter.wake_at
          /\ ~iter.late
          /\ task[1].pc = "sleeping" => iter.firings < MaxFirings
          /\ \E d \in Lateness : now' = now + d
          /\ iter' = [iter EXCEPT !.late = TRUE]
    /\ UNCHANGED <<taskFrame, task>>

NextTask == TaskStepTimed \/ Elapse

SpecTask == InitTask /\ [][NextTask]_vars

(***************************************************************************)
(* Claims about one task on the clock of seconds, checked under SpecTask.  *)
(***************************************************************************)
\* C32: a firing starts at or after the instant it was scheduled for, and the
\* _get_delay_until call that follows it (after the fetch, the notification
\* and the 3-second cooldown) targets the same time of day on a strictly
\* later day: no instant is fired for twice.
C32_NextTargetStrictlyLater ==
    iter.fired # None =>
       /\ now >= iter.fired
       /\ task[1].pc = "sleeping" =>
             /\ iter.target > iter.fired
             /\ iter.target >= iter.fired + SecondsPerDay
             /\ (iter.target - iter.fired) % SecondsPerDay = 0

\* a firing that took no time, then the cooldown: the task sleeps for the
\* same time of day of the next day
C32_Witness ==
    /\ task[1].pc = "sleeping"
    /\ iter.firings = 1
    /\ now = iter.fired + CooldownSeconds
    /\ iter.target = iter.fired + SecondsPerDay

\* C33: in a firing there is one probe, at most 3 page requests and at most 4
\* weather requests; a page is requested only after the probe succeeded and
\* the weather only after a page request succeeded; when the probe fails or
\* 3 page requests fail, the firing ends without data ("nodata", not an
\* error), without a weather request or a notification, and the task goes on
\* to its cooldown and its next sleep.
C33_WeatherOnlyAfterProbeAndPage ==
    /\ iter.probes <= 1
    /\ iter.pages <= PageRetries
    /\ iter.weather <= MaxRetries
    /\ iter.probes + iter.pages + iter.weather <= 1 + PageRetries + MaxRetries
    /\ iter.pages > 0 => iter.probe = "ok"
    /\ iter.weather > 0 => iter.probe = "ok" /\ iter.page_ok
    /\ task[1].sends > 0 => iter.weather > 0
    /\ iter.probe = "fail" \/ iter.page_fails = PageRetries =>
          /\ iter.weather = 0
          /\ task[1].sends = 0
          /\ task[1].pc \in {"retry_sleep", "cooldown", "sleeping"}
          /\ task[1].pc # "retry_sleep" => task[1].outcome = "nodata"

\* three page requests have failed and the firing has ended without data
C33_Witness ==
    /\ task[1].pc = "cooldown"
    /\ task[1].outcome = "nodata"
    /\ iter.probe = "ok"
    /\ iter.pages = PageRetries
    /\ iter.page_fails = PageRetries

(***************************************************************************)
(* Claim about the registry and its scan, checked under SpecScan.          *)
(***************************************************************************)
\* C31: self.tasks changes only in the registration at start-up (add_job) and
\* in update_config, never in a step of a task, at shutdown or during a scan;
\* and a scan of _get_next_check_time sees one registry from its first to its
\* last task: when it has ended, the registry is the one it started on and its
\* result is the one computed over that registry in one go: the next instant
\* of a task registered and not done at that moment, or None.
C31_RegistryStableAndScanAtomic ==
    [][/\ tasks' # tasks =>
             /\ scan.pc = "idle" /\ scan'.pc = "idle"
             /\ \/ mainpc = "start" /\ reloads' = reloads
                \/ mainpc = "loop" /\ reloads' = reloads + 1
       /\ scan.pc = "done" =>
             LET live == {k \in 1..Len(tasks) : ~Done(tasks[k])}
                 instant(k) == now + GetDelayUntil(task[tasks[k]].time_str, now).value
             IN  /\ scan.snapshot = tasks
                 /\ scan.next_check = GetNextCheckTime
                 /\ scan.next_check # None => \E k \in live : scan.next_check = instant(k)
                 /\ live = {} => scan.next_check = None]_vars

\* a scan has ended with the next instant of a registry that holds a finished
\* task next to a live one
C31_Witness ==
    /\ scan.pc = "done"
    /\ scan.next_check # None
    /\ \E k \in 1..Len(scan.snapshot) : Done(scan.snapshot[k])
    /\ \E k \in 1..Len(scan.snapshot) : ~Done(scan.snapshot[k])
    /\ \E k \in 1..Len(tasks) : Done(tasks[k])
    /\ \E k \in 1..Len(tasks) : ~Done(tasks[k])

(***************************************************************************)
(* Claim about the reload decision of the main loop, checked under         *)
(* SpecReload.                                                             *)
(***************************************************************************)
\* C35: an iteration of the main loop changes the registry, the tasks or the
\* running config only when config.yaml has a newer modification time, loads
\* and validates, and differs from the running config, which it then
\* replaces; when the changed file does not load, load_if_changed returns
\* the cached config, which is the running one, and nothing is reloaded.
C35_ReloadOnlyForChangedValidConfig ==
    [][mainpc = "poll" /\ mainpc' = "poll" =>
          LET newer == loader.file.kind # "missing" /\ loader.mtime > loader.last_modified
              valid == loader.file.kind = "config"
              polled == /\ loader'.file = loader.file
                        /\ loader'.mtime = loader.mtime
                        /\ now' = now
              reloaded == \/ task' # task
                          \/ tasks' # tasks
                          \/ parsers' # parsers
                          \/ config' # config
                          \/ reloads' # reloads
          IN  /\ loader.cached_config = Some(config)
              /\ reloaded =>
                    /\ polled /\ newer /\ valid
                    /\ loader.file.value # config
                    /\ config' = loader.file.value
                    /\ loader'.new_config = Some(config')
                    /\ reloads' = reloads + 1
              /\ polled /\ newer /\ ~valid =>
                    /\ loader'.new_config = loader.cached_config
                    /\ loader'.cached_config = loader.cached_config
                    /\ loader'.last_modified = loader.last_modified
                    /\ loader'.log = "error"
                    /\ ~reloaded
              /\ polled /\ ~newer =>
                    /\ loader'.new_config = loader.cached_config
                    /\ ~reloaded]_vars

\* after a reload, a poll has found a newer file that does not load, and the
\* tasks of the running config are still registered
C35_Witness ==
    /\ mainpc = "poll"
    /\ reloads > 0
    /\ Len(tasks) > 0
    /\ loader.log = "error"
    /\ loader.file = Broken
    /\ loader.mtime > loader.last_modified
    /\ loader.new_config = Some(config)

(***************************************************************************)
(* Claims about fetch_with_retry and get_weather, checked under SpecFetch. *)
(***************************************************************************)
\* C15: one call of fetch_with_retry makes at most 4 network attempts, the
\* attempt numbered k from 0 uses the timeout 10 + 5k seconds (10, 15, 20,
\* 25), and the attempt counter is the number of attempts the current call
\* has made, so it starts at 0 in every call whatever the earlier calls did.
C15_AtMostFourAttemptsGrowingTimeout ==
    fetch.pc # "idle" =>
       /\ Len(fetch.timeouts) <= 4
       /\ \A i \in 1..Len(fetch.timeouts) : fetch.timeouts[i] = 10 + 5 * (i - 1)
       /\ fetch.attempt <= 3
       /\ fetch.pc = "request" => fetch.attempt = Len(fetch.timeouts)
       /\ fetch.pc # "request" => fetch.attempt = Len(fetch.timeouts) - 1

\* the second call of fetch_with_retry has used the timeouts 10, 15, 20, 25
C15_Witness ==
    /\ fetch.calls = 2
    /\ fetch.timeouts = <<10, 15, 20, 25>>

RECURSIVE SumSeq(_)
SumSeq(q) == IF q = <<>> THEN 0 ELSE Head(q) + SumSeq(Tail(q))

\* C16: when the first k attempts (k < 4) fail with transport-level errors
\* and attempt k+1 succeeds, the call returns the record, exactly k backoff
\* sleeps were made, the i-th of them get_delay(i-1), i.e. within 20 percent
\* of 2 s * 2^(i-1), and the time elapsed is at least their sum.
C16_BackoffBetweenAttempts ==
    (/\ fetch.result = "record"
     /\ \A i \in 1..(Len(fetch.outcomes) - 1) : fetch.outcomes[i] \in Transport) =>
        LET k == Len(fetch.outcomes) - 1
        IN  /\ k < 4
            /\ fetch.outcomes[k + 1] = "record"
            /\ Len(fetch.sleeps) = k
            /\ \A i \in 1..k :
                  /\ \E j \in Jitters : fetch.sleeps[i] = GetDelay(i - 1, j)
                  /\ 5 * fetch.sleeps[i] >= 4 * 20 * Pow2(i - 1)
                  /\ 5 * fetch.sleeps[i] <= 6 * 20 * Pow2(i - 1)
            /\ fetch.elapsed >= SumSeq(fetch.sleeps)
            /\ fetch.pc = "done" => fetch.got = "record"

\* three transport failures, then the fourth attempt returns the record
C16_Witness ==
    /\ fetch.pc = "done"
    /\ fetch.got = "record"
    /\ Len(fetch.outcomes) = 4
    /\ \A i \in 1..3 : fetch.outcomes[i] \in Transport
    /\ Len(fetch.sleeps) = 3

\* C17 as claimed: when every attempt has failed, the caller of the fetcher
\* receives a failure it can tell from the None of a parse failure.
C17_Claimed_ExhaustionSurfaced ==
    (fetch.pc = "done" /\ fetch.result = "raised") => fetch.got # "None"

\* C18 as claimed: an attempt that got status 200 is the last attempt of the
\* call, whether the parsing step returned nothing or failed.
C18_Claimed_ParseFailureNotRetried ==
    \A i \in 1..(Len(fetch.outcomes) - 1) :
        fetch.outcomes[i] \notin {"not_found", "parse_raises"}

\* C36: in one call of fetch_with_retry every failed attempt but the last
\* possible one is followed by one backoff sleep: at most max_retries - 1
\* sleeps, none after the failure of the final attempt, which raises at once,
\* and get_delay is called with the attempt numbers 0, 1, ... only, all
\* below max_retries - 1.
C36_SleepAfterEveryFailureButLast ==
    fetch.pc # "idle" =>
       LET failed == {i \in 1..Len(fetch.outcomes) :
                         fetch.outcomes[i] \notin {"record", "not_found"}}
       IN  /\ Len(fetch.sleeps) <= MaxRetries - 1
           /\ Len(fetch.sleeps) = Cardinality({i \in failed : i < MaxRetries})
           /\ Len(fetch.delay_args) = Len(fetch.sleeps)
           /\ \A i \in 1..Len(fetch.delay_args) :
                 /\ fetch.delay_args[i] = i - 1
                 /\ fetch.delay_args[i] < MaxRetries - 1
           /\ MaxRetries \in failed => fetch.pc \in {"raised", "done"}
           /\ fetch.result = "raised" =>
                 (Len(fetch.outcomes) = MaxRetries /\ Len(fetch.sleeps) = MaxRetries - 1)

\* the final attempt has failed and the call has raised after three sleeps
C36_Witness ==
    /\ fetch.pc = "raised"
    /\ Len(fetch.outcomes) = MaxRetries
    /\ fetch.delay_args = <<0, 1, 2>>

(***************************************************************************)
(* Claims about ExponentialBackoff.get_delay, checked under SpecBackoff.   *)
(***************************************************************************)
\* C21: for every attempt >= max_retries get_delay returns exactly max_delay
\* and applies no jitter.
C21_LateAttemptReturnsMaxDelay ==
    (backoff.pc = "returned" /\ backoff.attempt >= backoff.max_retries) =>
       /\ backoff.final_delay = backoff.max_delay
       /\ backoff.jitter = 0

\* a late attempt whose capped exponential delay is below max_delay and for
\* which the draw would not have been zero
C21_Witness ==
    /\ backoff.pc = "returned"
    /\ backoff.attempt >= backoff.max_retries
    /\ backoff.draw # 0
    /\ 0 < RawDelay(backoff, backoff.attempt)
    /\ RawDelay(backoff, backoff.attempt) < backoff.max_delay

\* C22 as claimed: for every attempt < max_retries and every jitter draw the
\* result lies between 0.1 s and max_delay, whatever the parameters.
C22_Claimed_DelayWithinBounds ==
    (backoff.pc = "returned" /\ backoff.attempt < backoff.max_retries) =>
       /\ MinDelay <= backoff.final_delay
       /\ backoff.final_delay <= backoff.max_delay

\* C23: for attempt < max_retries the unjittered delay starts at
\* min(base_delay, max_delay) and, from one attempt to the next, doubles
\* until the double would pass max_delay, from where it is max_delay; so it
\* never decreases.
C23_RawDelayDoublesToCap ==
    (backoff.pc = "returned" /\ backoff.attempt < backoff.max_retries) =>
       /\ backoff.attempt = 0 => backoff.delay = Min(backoff.base_delay, backoff.max_delay)
       /\ (backoff.prev_attempt # None /\ backoff.attempt = backoff.prev_attempt + 1) =>
             /\ backoff.delay >= backoff.prev_delay
             /\ backoff.delay = Min(2 * backoff.prev_delay, backoff.max_delay)

\* two consecutive attempts where the delay reaches the cap without having
\* doubled
C23_Witness ==
    /\ backoff.pc = "returned"
    /\ backoff.attempt < backoff.max_retries
    /\ backoff.prev_attempt # None
    /\ backoff.attempt = backoff.prev_attempt + 1
    /\ 0 < backoff.prev_delay
    /\ backoff.prev_delay < backoff.max_delay
    /\ backoff.delay = backoff.max_delay
    /\ backoff.delay < 2 * backoff.prev_delay

(***************************************************************************)
(* Claims about _format_weather_message, checked under SpecFormat.         *)
(***************************************************************************)
\* C24: the message has the annex exactly when the clock is between 06:00
\* and 07:30, the day is not Sunday and the temperature of the record is a
\* number not above -45.
C24_AnnexIffWindowWeekdayCold ==
    fmt.pc = "returned" =>
       LET minute_of_day == 60 * fmt.clock.hour + fmt.clock.minute
       IN  fmt.message.annex # <<>> <=>
              /\ 60 * WindowFromHour <= minute_of_day
              /\ minute_of_day <= 60 * WindowToHour + WindowToMinute
              /\ fmt.clock.weekday # Sunday
              /\ fmt.tenths # None
              /\ fmt.tenths <= Tier45

\* -46.0 on a Monday at 06:15 gives the annex of the -45 tier
C24_Witness ==
    /\ fmt.pc = "returned"
    /\ fmt.tenths = -460
    /\ fmt.clock = [weekday |-> 0, hour |-> 6, minute |-> 15]
    /\ fmt.message.annex = <<"06:00", "1-4">>

\* C25: whenever the message has an annex its label is that of the -45 tier
\* (grades 1-4), also for -48, -50, -52 and below.
C25_AnnexAlwaysFirstTier ==
    (fmt.pc = "returned" /\ fmt.message.annex # <<>>) =>
       /\ fmt.message.annex[2] = "1-4"
       /\ fmt.message.annex[2] \notin {"1-7", "1-9", "1-11"}

\* an annex for a temperature at or below the -52 threshold
C25_Witness ==
    /\ fmt.pc = "returned"
    /\ fmt.message.annex # <<>>
    /\ fmt.tenths # None
    /\ fmt.tenths <= Tier52

\* C26 as claimed: no rendered field of the message (temperature, humidity,
\* pressure, precipitation, cloudiness, wind) shows the raw 'N/A'.
C26_Claimed_NoRawSentinel ==
    fmt.pc = "returned" =>
       \A field \in {"temperature", "humidity", "pressure", "precipitation",
                     "cloudiness", "wind"} :
          \A p \in 1..Len(fmt.message[field]) : fmt.message[field][p] # "N/A"

DelayReturned == ret_delay.state = "returned"

\* C7: for every valid HH:MM time-of-day and every now, _get_delay_until
\* returns a value >= 0, and when today's candidate is in the past the
\* targeted instant is exactly 24 hours after today's candidate.
C7_DelayNonNegativeAndRollsOneDay ==
    (ret_delay.state # "pending" /\ ValidTimeStr(arg_time_str)) =>
        /\ DelayReturned
        /\ ret_delay.value >= 0
        /\ Candidate(arg_time_str, now) < now =>
             now + ret_delay.value = Candidate(arg_time_str, now) + 24 * SecondsPerHour

\* now = Monday 06:30 and entry "06:00" give 23 h 30 min = 84600 s
C7_Witness ==
    /\ DelayReturned
    /\ now = At(0, 6, 30, 0)
    /\ arg_time_str = T0600
    /\ ret_delay.value = 84600

\* C8: when today's candidate is strictly later than now, the delay is exactly
\* candidate - now, which is strictly less than 24 hours.
C8_DelayToLaterCandidate ==
    (DelayReturned /\ Candidate(arg_time_str, now) > now) =>
        /\ ret_delay.value = Candidate(arg_time_str, now) - now
        /\ ret_delay.value < 24 * SecondsPerHour

\* now = Monday 05:00 and entry "06:00" give 3600 s
C8_Witness ==
    /\ DelayReturned
    /\ now = At(0, 5, 0, 0)
    /\ arg_time_str = T0600
    /\ ret_delay.value = 3600

\* C9 as claimed: when today's candidate equals now, the candidate is advanced
\* by one calendar day, so the delay is 24 hours and never 0.
C9_Claimed_EqualRollsOneDay ==
    (DelayReturned /\ Candidate(arg_time_str, now) = now) =>
        /\ ret_delay.value = 24 * SecondsPerHour
        /\ ret_delay.value # 0

\* C9 as amended: when today's candidate equals now the candidate is not
\* advanced and the delay is exactly 0; the candidate is advanced (by exactly
\* one calendar day) only when it is strictly earlier than now, and every
\* returned delay is at most 24 hours.
C9_EqualGivesZeroDelay ==
    DelayReturned =>
        /\ Candidate(arg_time_str, now) = now => ret_delay.value = 0
        /\ ret_delay.value = 24 * SecondsPerHour - (now - Candidate(arg_time_str, now))
             <=> Candidate(arg_time_str, now) < now
        /\ ret_delay.value <= 24 * SecondsPerHour

\* now = Monday 06:00:00 exactly and entry "06:00": the delay is 0
C9_Witness ==
    /\ DelayReturned
    /\ now = At(0, 6, 0, 0)
    /\ arg_time_str = T0600
    /\ ret_delay.value = 0

\* C10 as claimed: _get_next_check_time returns None for an empty registry,
\* and for a registry with at least one task that is not done it returns the
\* minimum over those tasks of now + _get_delay_until(task.time_str).
C10_Claimed_NextCheckIsMinimum ==
    next_check.state = "returned" =>
       LET live == {i \in 1..Len(tasks) : ~Done(tasks[i])}
           NextOf(i) == now + GetDelayUntil(task[tasks[i]].time_str, now).value
       IN  /\ Len(tasks) = 0 => next_check.value = None
           /\ live # {} =>
                 /\ next_check.value # None
                 /\ \E i \in live : next_check.value = NextOf(i)
                 /\ \A i \in live : next_check.value <= NextOf(i)

====
